---- MODULE Spec2Model ----
(***************************************************************************)
(* pyvdrm: the mutation algebra of vcf.py (Mutation, MutationSet,          *)
(* VariantCalls), the AST node classes of hcvr2.py and their evaluation,   *)
(* and the grammar of hcvr.py that builds the AST.                         *)
(*                                                                         *)
(* Values.  A Python bool or int is a record [isbool, n]: True is          *)
(* [TRUE, 1], False is [TRUE, 0], the int k is [FALSE, k]; arithmetic on   *)
(* them gives an int, as in Python.  A Mutation is a record [pos, variant, *)
(* wildtype] with wildtype = None when absent.  A Python set of Mutations  *)
(* is a set of such records holding at most one record per (pos, variant): *)
(* Mutation.__hash__ and __eq__ identify mutations by that pair, and       *)
(* __eq__ raises ValueError when it compares two mutations of one position *)
(* that both carry a wildtype and the wildtypes differ.  A dict of flags   *)
(* is a function from its keys to lists.                                   *)
(*                                                                         *)
(* An evaluation's outcome is a Score, [kind |-> "Score", score, residues, *)
(* flags], a bare Python bool [kind |-> "bool", value] (what EqualityExpr  *)
(* returns), or a raised exception [kind |-> <exception class>, pos].      *)
(*                                                                         *)
(* A Python str is a sequence of one-character strings; text is the rule   *)
(* text handed to the parser or the text form of the mutation set mset.    *)
(*                                                                         *)
(* Where object identity matters (update_flags changes a dict and its      *)
(* lists in place) the dicts and lists live in heap, a function from       *)
(* addresses to objects, and a Score holds the address of its flags dict.  *)
(* operands holds the arguments of the call under study; evals holds the   *)
(* local state of each of the evaluations that run interleaved.            *)
(***************************************************************************)
EXTENDS Integers, Sequences, FiniteSets, TLC

VARIABLES rule, env, outcome, pc, text, mset, heap, operands, evals

vars == <<rule, env, outcome, pc, text, mset, heap, operands, evals>>

None == "None"

(***************************************************************************)
(* vcf.py                                                                  *)
(***************************************************************************)
AMINO_ALPHABET ==
    <<"A", "C", "D", "E", "F", "G", "H", "I", "K", "L",
      "M", "N", "P", "Q", "R", "S", "T", "V", "W", "Y">>

AminoLetters == {AMINO_ALPHABET[i] : i \in 1..Len(AMINO_ALPHABET)}

\* Mutation.__new__ with wildtype, pos and variant given: `wildtype or None`.
Mutation(wildtype, pos, variant) ==
    [pos |-> pos, variant |-> variant,
     wildtype |-> IF wildtype = "" THEN None ELSE wildtype]

\* Mutation.__hash__: hash((pos, variant)).
MutationHash(m) == <<m.pos, m.variant>>

\* Mutation.__eq__ raises: same position, both wildtypes given, and different.
MutationEqRaises(a, b) ==
    /\ a.pos = b.pos
    /\ a.wildtype # None /\ b.wildtype # None
    /\ a.wildtype # b.wildtype

\* Mutation.__eq__ when it does not raise.
MutationEq(a, b) ==
    /\ a.pos = b.pos
    /\ <<a.pos, a.variant>> = <<b.pos, b.variant>>

\* A set operation looks an element of one set up in the other: __eq__ is
\* called on the pairs with equal hashes, and its ValueError propagates.
SetOpRaises(A, B) ==
    \E a \in A, b \in B :
        MutationHash(a) = MutationHash(b) /\ MutationEqRaises(a, b)

InSet(m, A) == \E a \in A : MutationHash(a) = MutationHash(m) /\ MutationEq(a, m)

\* frozenset.__and__ (A & B): the elements of the smaller operand found in the
\* other one; of the right operand when the sizes are equal.
SetAnd(A, B) ==
    IF Cardinality(B) > Cardinality(A)
    THEN {a \in A : InSet(a, B)}
    ELSE {b \in B : InSet(b, A)}

\* set.__or__ (A | B): A, and the elements of B not already in it.
SetOr(A, B) == A \cup {b \in B : ~InSet(b, A)}

\* MutationSet.__new__, the branch taken when variants are given (from the
\* text's groups or from the caller): a '!' expands to the alphabet's letters
\* not listed.
MutationSetNew(wildtype, pos, negative, variants) ==
    LET expanded == IF negative THEN AminoLetters \ variants ELSE variants
        wt == IF wildtype = "" THEN None ELSE wildtype
    IN  [pos |-> pos,
         mutations |-> {Mutation(wt, pos, v) : v \in expanded},
         wildtype |-> wt]

\* The variant letters of a mutation set (MutationSet.__str__ reads them so).
Variants0(ms) == {m.variant : m \in ms.mutations}

\* Characters.  A str is a sequence of one-character strings.
Digits == <<"0", "1", "2", "3", "4", "5", "6", "7", "8", "9">>
DigitChars == {Digits[i] : i \in 1..Len(Digits)}
Uppercase ==
    <<"A", "B", "C", "D", "E", "F", "G", "H", "I", "J", "K", "L", "M",
      "N", "O", "P", "Q", "R", "S", "T", "U", "V", "W", "X", "Y", "Z">>
UppercaseChars == {Uppercase[i] : i \in 1..Len(Uppercase)}
\* [idA-Z]
VariantChars == UppercaseChars \cup {"i", "d"}

\* The end of the longest run of characters of `class` that starts at loc.
RECURSIVE RunEnd(_, _, _)
RunEnd(s, loc, class) ==
    IF loc <= Len(s) /\ s[loc] \in class THEN RunEnd(s, loc + 1, class) ELSE loc

\* int(digits)
RECURSIVE IntOf(_)
IntOf(digits) ==
    IF digits = << >> THEN 0
    ELSE LET last == digits[Len(digits)]
             d == CHOOSE i \in 0..9 : Digits[i + 1] = last
         IN  10 * IntOf(SubSeq(digits, 1, Len(digits) - 1)) + d

\* str(n) of a non-negative int
RECURSIVE StrOfInt(_)
StrOfInt(n) ==
    IF n < 10 THEN <<Digits[n + 1]>>
    ELSE StrOfInt(n \div 10) \o <<Digits[(n % 10) + 1]>>

CharsOf(s) == {s[i] : i \in 1..Len(s)}

\* The characters of S in the order of `order`: ''.join(sorted(...)) with
\* order the code points, ''.join(c for c in order if ...) in general.
InOrder(order, S) == LET Kept(c) == c \in S IN SelectSeq(order, Kept)

ValueError == [kind |-> "ValueError", pos |-> 0]

\* MutationSet.__new__(text): re.match of ([A-Z]?)(\d+)(!)?([idA-Z]+)$ and
\* then the branch of the variants; ValueError when the text does not match.
MutationSetFromText(t) ==
    LET a == IF t # << >> /\ t[1] \in UppercaseChars THEN 2 ELSE 1
        b == RunEnd(t, a, DigitChars)
        c == IF b <= Len(t) /\ t[b] = "!" THEN b + 1 ELSE b
        e == RunEnd(t, c, VariantChars)
        atEnd == e = Len(t) + 1 \/ (e = Len(t) /\ t[e] = "\n")
    IN  IF b > a /\ e > c /\ atEnd
        THEN MutationSetNew(IF a = 2 THEN t[1] ELSE "",
                            IntOf(SubSeq(t, a, b - 1)),
                            c > b,
                            CharsOf(SubSeq(t, c, e - 1)))
        ELSE ValueError

\* MutationSet.__str__
MutationSetStr(ms) ==
    LET mutations == InOrder(Uppercase \o <<"d", "i">>, Variants0(ms))
        wt == IF ms.wildtype = None THEN << >> ELSE <<ms.wildtype>>
    IN  IF Len(mutations) > 10
        THEN wt \o StrOfInt(ms.pos) \o <<"!">>
                \o InOrder(AMINO_ALPHABET, AminoLetters \ CharsOf(mutations))
        ELSE wt \o StrOfInt(ms.pos) \o mutations

\* MutationSet.__eq__: a bool, or ValueError for two different wildtypes.
MutationSetEq(self, other) ==
    IF self.pos # other.pos THEN [kind |-> "bool", value |-> FALSE]
    ELSE IF self.wildtype # None /\ other.wildtype # None
            /\ self.wildtype # other.wildtype THEN ValueError
    ELSE [kind |-> "bool",
          value |-> {MutationHash(m) : m \in self.mutations}
                      = {MutationHash(m) : m \in other.mutations}]

(***************************************************************************)
(* hcvr2.py: Score                                                         *)
(***************************************************************************)
PyBool(b) == [isbool |-> TRUE, n |-> IF b THEN 1 ELSE 0]
PyInt(n) == [isbool |-> FALSE, n |-> n]
Truthy(v) == v.n # 0
IsFalse(v) == v.isbool /\ v.n = 0          \* `v is False`
PyAdd(a, b) == PyInt(a.n + b.n)

EmptyDict == << >>

\* Score.__init__
Score(score, residues, flags) ==
    [kind |-> "Score", score |-> score, residues |-> residues, flags |-> flags]

Bare(b) == [kind |-> "bool", value |-> b]
Raise(exception, pos) == [kind |-> exception, pos |-> pos]
Raised(o) == o.kind \notin {"Score", "bool"}

\* update_flags(fst, snd): a key of both gets snd's list appended to fst's
\* list as one element; a key of snd alone gets snd's list.
update_flags(fst, snd) ==
    [k \in (DOMAIN fst) \cup (DOMAIN snd) |->
        IF k \in DOMAIN snd
        THEN IF k \in DOMAIN fst THEN Append(fst[k], snd[k]) ELSE snd[k]
        ELSE fst[k]]

\* dict.update(other): other's entries replace the dict's.
DictUpdate(d, other) ==
    [k \in (DOMAIN d) \cup (DOMAIN other) |->
        IF k \in DOMAIN other THEN other[k] ELSE d[k]]

\* Score.__add__: the flags are merged first, then the new Score is built.
ScoreAdd(self, other) ==
    IF SetOpRaises(self.residues, other.residues)
    THEN Raise("ValueError", 0)
    ELSE Score(PyAdd(self.score, other.score),
               SetOr(self.residues, other.residues),
               update_flags(self.flags, other.flags))

(***************************************************************************)
(* hcvr2.py: the AST nodes.  A node is a record whose field `node` names   *)
(* its class; Call(self, arg) is self.__call__(arg).                       *)
(***************************************************************************)
AsiMutations(ms) == [node |-> "AsiMutations", mutations |-> ms]
BoolTrue == [node |-> "BoolTrue"]
BoolFalse == [node |-> "BoolFalse"]
AndExpr(children) == [node |-> "AndExpr", children |-> children]
OrExpr(arg1, arg2) == [node |-> "OrExpr", children |-> <<arg1, arg2>>]
EqualityExpr(operation, limit) ==
    [node |-> "EqualityExpr", operation |-> operation, limit |-> limit]
SelectFrom(operation, rest) ==
    [node |-> "SelectFrom", operation |-> operation, rest |-> rest]
ScoreExpr(children) == [node |-> "ScoreExpr", children |-> children]
ScoreList(operation, terms) ==
    [node |-> "ScoreList", operation |-> operation, terms |-> terms]
AsiScoreCond(children) == [node |-> "AsiScoreCond", children |-> children]

\* The index of the first outcome of `results` that is a raised exception, or 0:
\* a list comprehension [f(x) for f in fs] stops at the first call that raises.
FirstRaised(results) ==
    LET bad == {i \in DOMAIN results : Raised(results[i])}
    IN  IF bad = {} THEN 0 ELSE CHOOSE i \in bad : \A j \in bad : i <= j

\* reduce(lambda x, y: x | y, sets), from the left; [raised, set].
RECURSIVE ReduceOr(_, _, _)
ReduceOr(sets, i, acc) ==
    IF i > Len(sets) THEN [raised |-> FALSE, set |-> acc]
    ELSE IF SetOpRaises(acc, sets[i]) THEN [raised |-> TRUE, set |-> {}]
    ELSE ReduceOr(sets, i + 1, SetOr(acc, sets[i]))

\* sum() that drops the negative scores.
RECURSIVE SumSeqPositive(_)
SumSeqPositive(s) ==
    IF s = << >> THEN 0
    ELSE (IF Head(s) > 0 THEN Head(s) ELSE 0) + SumSeqPositive(Tail(s))

RECURSIVE SumSeq(_)
SumSeq(s) == IF s = << >> THEN 0 ELSE Head(s) + SumSeq(Tail(s))

MaxSeq(s) == CHOOSE x \in {s[i] : i \in DOMAIN s} : \A i \in DOMAIN s : s[i] <= x
MinSeq(s) == CHOOSE x \in {s[i] : i \in DOMAIN s} : \A i \in DOMAIN s : x <= s[i]

\* AsiMutations.__call__ without the missing-position check.
AsiMutationsCallSilent(self, mutation_sets) ==
    LET mine == self.mutations.mutations
        hits == {ms \in mutation_sets : SetAnd(mine, ms.mutations) # {}}
    IN  IF \E ms \in mutation_sets : SetOpRaises(mine, ms.mutations)
        THEN Raise("ValueError", self.mutations.pos)
        ELSE IF hits # {}
        THEN Score(PyBool(TRUE),
                   SetAnd(mine, (CHOOSE ms \in hits : TRUE).mutations),
                   EmptyDict)
        ELSE Score(PyBool(FALSE), {}, EmptyDict)

\* AsiMutations.__call__: only a set of the atom's own position can intersect
\* it (or make the intersection raise), and a VariantCalls holds at most one.
AsiMutationsCall(self, mutation_sets) ==
    LET mine == self.mutations.mutations
        is_found == \E ms \in mutation_sets : ms.pos = self.mutations.pos
        hits == {ms \in mutation_sets : SetAnd(mine, ms.mutations) # {}}
    IN  IF \E ms \in mutation_sets : SetOpRaises(mine, ms.mutations)
        THEN Raise("ValueError", self.mutations.pos)
        ELSE IF hits # {}
        THEN Score(PyBool(TRUE),
                   SetAnd(mine, (CHOOSE ms \in hits : TRUE).mutations),
                   EmptyDict)
        ELSE IF ~is_found
        THEN Raise("MissingPositionError", self.mutations.pos)
        ELSE Score(PyBool(FALSE), {}, EmptyDict)

\* EqualityExpr.__call__
EqualityExprCall(self, x) ==
    IF self.operation = "ATLEAST" THEN Bare(x >= self.limit)
    ELSE IF self.operation = "EXACTLY" THEN Bare(x = self.limit)
    ELSE IF self.operation = "NOMORETHAN" THEN Bare(x <= self.limit)
    ELSE Raise("NotImplementedError", 0)

\* AndExpr.__call__, the loop over the children's scores.
RECURSIVE AndFold(_, _, _)
AndFold(scores, i, residues) ==
    IF i > Len(scores) THEN Score(PyBool(TRUE), residues, EmptyDict)
    ELSE IF scores[i].kind # "Score" THEN Raise("AttributeError", 0)
    ELSE IF SetOpRaises(residues, scores[i].residues) THEN Raise("ValueError", 0)
    ELSE IF ~Truthy(scores[i].score) THEN Score(PyBool(FALSE), {}, EmptyDict)
    ELSE AndFold(scores, i + 1, SetOr(residues, scores[i].residues))

\* AndExpr.__call__ stopping at the first false child, the later children
\* not evaluated.
AndExprCallShortCircuit(scores) ==
    LET stop == {i \in DOMAIN scores :
                    Raised(scores[i]) \/ scores[i].kind # "Score"
                    \/ ~Truthy(scores[i].score)}
        first == CHOOSE i \in stop : \A j \in stop : i <= j
    IN  IF Len(scores) = 0 THEN Raise("ValueError", 0)
        ELSE IF stop = {} THEN AndFold(scores, 1, {})
        ELSE IF Raised(scores[first]) THEN scores[first]
        ELSE AndFold(SubSeq(scores, 1, first), 1, {})

\* AndExpr.__call__ given its children's outcomes: the list of scores is built
\* whole before the loop.
AndExprCall(scores) ==
    IF FirstRaised(scores) # 0 THEN scores[FirstRaised(scores)]
    ELSE IF Len(scores) = 0 THEN Raise("ValueError", 0)
    ELSE AndFold(scores, 1, {})

\* OrExpr.__call__ returning its first child's score when that is true, the
\* second child not evaluated.
OrExprCallShortCircuit(score1, score2) ==
    IF Raised(score1) THEN score1
    ELSE IF score1.kind # "Score" THEN Raise("AttributeError", 0)
    ELSE IF Truthy(score1.score)
    THEN Score(score1.score, score1.residues, EmptyDict)
    ELSE IF Raised(score2) THEN score2
    ELSE IF score2.kind # "Score" THEN Raise("AttributeError", 0)
    ELSE IF SetOpRaises(score1.residues, score2.residues)
    THEN Raise("ValueError", 0)
    ELSE Score(score2.score, SetOr(score1.residues, score2.residues), EmptyDict)

\* OrExpr.__call__ given its children's outcomes.
OrExprCall(score1, score2) ==
    IF Raised(score1) THEN score1
    ELSE IF Raised(score2) THEN score2
    ELSE IF score1.kind # "Score" \/ score2.kind # "Score"
    THEN Raise("AttributeError", 0)
    ELSE IF SetOpRaises(score1.residues, score2.residues)
    THEN Raise("ValueError", 0)
    ELSE Score(IF Truthy(score1.score) THEN score1.score ELSE score2.score,
               SetOr(score1.residues, score2.residues),
               EmptyDict)

\* passing as the number of atoms scored, matching or not.
PassingAll(scored) == Len(scored)

\* SelectFrom.__call__ given the atoms' outcomes and the quantifier's outcome
\* on the number of passing atoms.
Passing(scored) == Cardinality({i \in DOMAIN scored : Truthy(scored[i].score)})

SelectFromCall(scored, quantified) ==
    LET united == ReduceOr([i \in DOMAIN scored |-> scored[i].residues], 2,
                           scored[1].residues)
    IN  IF Raised(quantified) THEN quantified
        ELSE IF united.raised THEN Raise("ValueError", 0)
        ELSE Score(IF quantified.kind = "bool" THEN PyBool(quantified.value)
                   ELSE quantified,
                   united.set, EmptyDict)

\* ScoreExpr.__call__ returning the flags whether the condition holds or not.
ScoreExprCallAlwaysFlags(self, result) ==
    LET n == Len(self.children)
        flags == IF n = 4 THEN [k \in {self.children[3]} |-> << >>] ELSE EmptyDict
        score == IF n = 4 THEN 0
                 ELSE IF n = 3 THEN (-1) * self.children[3]
                 ELSE self.children[2]
    IN  IF n \notin {2, 3, 4} THEN Raise("ValueError", 0)
        ELSE IF n = 3 /\ self.children[2] # "-" THEN Raise("ValueError", 0)
        ELSE IF Raised(result) THEN result
        ELSE IF result.kind # "Score" THEN Raise("AttributeError", 0)
        ELSE IF IsFalse(result.score) THEN Score(PyInt(0), {}, flags)
        ELSE Score(PyInt(score), result.residues, flags)

\* ScoreExpr.__call__ given the outcome of its condition.
ScoreExprCall(self, result) ==
    LET n == Len(self.children)
        flags == IF n = 4 THEN [k \in {self.children[3]} |-> << >>] ELSE EmptyDict
        score == IF n = 4 THEN 0
                 ELSE IF n = 3 THEN (-1) * self.children[3]
                 ELSE self.children[2]
    IN  IF n \notin {2, 3, 4} THEN Raise("ValueError", 0)
        ELSE IF n = 3 /\ self.children[2] # "-" THEN Raise("ValueError", 0)
        ELSE IF Raised(result) THEN result
        ELSE IF result.kind # "Score" THEN Raise("AttributeError", 0)
        ELSE IF IsFalse(result.score) THEN Score(PyInt(0), {}, EmptyDict)
        ELSE Score(PyInt(score), result.residues, flags)

RECURSIVE FlagsOf(_, _, _)
FlagsOf(scores, i, flags) ==
    IF i > Len(scores) THEN flags
    ELSE FlagsOf(scores, i + 1, DictUpdate(flags, scores[i].flags))

\* matched_scores as the scores of all the terms, the false ones (0) included.
MatchedScoresAll(scores) == [i \in DOMAIN scores |-> scores[i].score.n]

\* The scores of `scores` that are truthy, in order.
MatchedScores(scores) ==
    LET F[i \in 0..Len(scores)] ==
            IF i = 0 THEN << >>
            ELSE IF Truthy(scores[i].score) THEN Append(F[i - 1], scores[i].score.n)
            ELSE F[i - 1]
    IN  F[Len(scores)]

\* ScoreList.__call__ taking the residues of the matched scores only.
ScoreListCallMatchedResidues(self, scores) ==
    LET matched_scores == MatchedScores(scores)
        kept == [i \in DOMAIN scores |->
                    IF Truthy(scores[i].score) THEN scores[i].residues ELSE {}]
        united == ReduceOr(kept, 2, kept[1])
        func == IF self.operation = "MAX" THEN MaxSeq(matched_scores)
                ELSE IF self.operation = "MIN" THEN MinSeq(matched_scores)
                ELSE SumSeq(matched_scores)
    IN  IF FirstRaised(scores) # 0 THEN scores[FirstRaised(scores)]
        ELSE IF united.raised THEN Raise("ValueError", 0)
        ELSE Score(IF matched_scores = << >> THEN PyBool(FALSE) ELSE PyInt(func),
                   united.set,
                   FlagsOf(scores, 1, EmptyDict))

\* ScoreList.__call__ given the outcomes of its terms.
ScoreListCall(self, scores) ==
    LET matched_scores == MatchedScores(scores)
        united == ReduceOr([i \in DOMAIN scores |-> scores[i].residues], 2,
                           scores[1].residues)
        func == IF self.operation = "MAX" THEN MaxSeq(matched_scores)
                ELSE IF self.operation = "MIN" THEN MinSeq(matched_scores)
                ELSE SumSeq(matched_scores)
    IN  IF FirstRaised(scores) # 0 THEN scores[FirstRaised(scores)]
        ELSE IF united.raised THEN Raise("ValueError", 0)
        ELSE Score(IF matched_scores = << >> THEN PyBool(FALSE) ELSE PyInt(func),
                   united.set,
                   FlagsOf(scores, 1, EmptyDict))

\* AsiScoreCond.__call__: sum(children's scores, Score(False, set())), each
\* child evaluated right before it is added.
RECURSIVE SumFold(_, _, _)
SumFold(scores, i, acc) ==
    IF i > Len(scores) THEN acc
    ELSE IF Raised(scores[i]) THEN scores[i]
    ELSE IF Raised(ScoreAdd(acc, scores[i])) THEN ScoreAdd(acc, scores[i])
    ELSE SumFold(scores, i + 1, ScoreAdd(acc, scores[i]))

AsiScoreCondCall(scores) == SumFold(scores, 1, Score(PyBool(FALSE), {}, EmptyDict))

\* self.__call__(arg) by the class of self.
RECURSIVE Call(_, _)
Call(self, arg) ==
    CASE self.node = "AsiMutations" -> AsiMutationsCall(self, arg)
      [] self.node = "BoolTrue" -> Score(PyBool(TRUE), {}, EmptyDict)
      [] self.node = "BoolFalse" -> Score(PyBool(FALSE), {}, EmptyDict)
      [] self.node = "EqualityExpr" -> EqualityExprCall(self, arg)
      [] self.node = "AndExpr" ->
            AndExprCall([i \in DOMAIN self.children |-> Call(self.children[i], arg)])
      [] self.node = "OrExpr" ->
            \* arg1, arg2 = self.children
            IF Len(self.children) # 2 THEN Raise("ValueError", 0)
            ELSE OrExprCall(Call(self.children[1], arg), Call(self.children[2], arg))
      [] self.node = "str" -> Raise("TypeError", 0)
      [] self.node = "SelectFrom" ->
            LET scored == [i \in DOMAIN self.rest |-> Call(self.rest[i], arg)]
            IN  IF FirstRaised(scored) # 0 THEN scored[FirstRaised(scored)]
                ELSE SelectFromCall(scored, Call(self.operation, Passing(scored)))
      [] self.node = "ScoreExpr" ->
            ScoreExprCall(self, Call(self.children[1], arg))
      [] self.node = "ScoreList" ->
            ScoreListCall(self, [i \in DOMAIN self.terms |-> Call(self.terms[i], arg)])
      [] self.node = "AsiScoreCond" ->
            AsiScoreCondCall([i \in DOMAIN self.children |-> Call(self.children[i], arg)])

(***************************************************************************)
(* hcvr.py: HCVR.parser.  The grammar's elements, as pyparsing matches     *)
(* them against the characters of the rule text: every element first skips *)
(* whitespace, a sequence (+) fails when one of its parts fails, an        *)
(* alternative (|) takes the first part that matches, and nothing is       *)
(* retried once it has matched.  A match is [ok, loc, toks]: the place     *)
(* after the matched text and the tokens (after the parse actions).        *)
(***************************************************************************)
Whitespace == {" ", "\t", "\n", "\r"}

NoMatch == [ok |-> FALSE, loc |-> 0, toks |-> << >>]
Match(loc, toks) == [ok |-> TRUE, loc |-> loc, toks |-> toks]

SkipWhitespace(s, loc) == RunEnd(s, loc, Whitespace)

\* Literal(lit)
Literal(lit, s, loc) ==
    LET j == SkipWhitespace(s, loc)
        e == j + Len(lit)
    IN  IF e - 1 <= Len(s) /\ SubSeq(s, j, e - 1) = lit
        THEN Match(e, <<lit>>) ELSE NoMatch

\* A token that is a str, where the AST holds it among its nodes.
Str_(chars) == [node |-> "str", value |-> chars]

SELECT_ == <<"S", "E", "L", "E", "C", "T">>
EXCEPT_ == <<"E", "X", "C", "E", "P", "T">>
EXACTLY_ == <<"E", "X", "A", "C", "T", "L", "Y">>
ATLEAST_ == <<"A", "T", "L", "E", "A", "S", "T">>
NOTMORETHAN_ == <<"N", "O", "T", "M", "O", "R", "E", "T", "H", "A", "N">>
FROM_ == <<"F", "R", "O", "M">>
MAX_ == <<"M", "A", "X">>
AND_ == <<"A", "N", "D">>
OR_ == <<"O", "R">>
TRUE_ == <<"T", "R", "U", "E">>
FALSE_ == <<"F", "A", "L", "S", "E">>
SCORE_FROM_ == <<"S", "C", "O", "R", "E", " ", "F", "R", "O", "M">>
MAPPER_ == <<"=", ">">>

\* The quantifier keyword as EqualityExpr.operation holds it.
KeywordOf(lit) ==
    CASE lit = EXACTLY_ -> "EXACTLY"
      [] lit = ATLEAST_ -> "ATLEAST"
      [] lit = NOTMORETHAN_ -> "NOTMORETHAN"

\* integer = Word(nums)
integer(s, loc) ==
    LET j == SkipWhitespace(s, loc)
        e == RunEnd(s, j, DigitChars)
    IN  IF e > j THEN Match(e, <<SubSeq(s, j, e - 1)>>) ELSE NoMatch

\* Regex(r'[A-Z]')
RegexUpper(s, loc) ==
    LET j == SkipWhitespace(s, loc)
    IN  IF j <= Len(s) /\ s[j] \in UppercaseChars
        THEN Match(j + 1, <<(<<s[j]>>)>>) ELSE NoMatch

\* Regex(r'\!?[diA-Z]+')
RegexVariants(s, loc) ==
    LET j == SkipWhitespace(s, loc)
        k == IF j <= Len(s) /\ s[j] = "!" THEN j + 1 ELSE j
        e == RunEnd(s, k, VariantChars)
    IN  IF e > k THEN Match(e, <<SubSeq(s, j, e - 1)>>) ELSE NoMatch

\* ''.join(args)
RECURSIVE Join(_)
Join(args) == IF args = << >> THEN << >> ELSE Head(args) \o Join(Tail(args))

\* The match m of one element, handed to what follows it: Then(m) is
\* evaluated with m's value, so that m is matched once.
With(m, Then(_)) == CHOOSE r \in {Then(v) : v \in {m}} : TRUE

\* residue = Optional(Regex(r'[A-Z]')) + integer + Regex(r'\!?[diA-Z]+'),
\* with the parse action AsiMutations: MutationSet(''.join(args)).
residue(s, loc) ==
    With(RegexUpper(s, loc), LAMBDA w :
    With(integer(s, IF w.ok THEN w.loc ELSE loc), LAMBDA i :
    With(IF i.ok THEN RegexVariants(s, i.loc) ELSE NoMatch, LAMBDA v :
        IF v.ok
        THEN Match(v.loc,
                   <<AsiMutations(MutationSetFromText(Join(w.toks \o i.toks \o v.toks)))>>)
        ELSE NoMatch)))

\* excludestatement = except_ + residue
excludestatement(s, loc) ==
    With(Literal(EXCEPT_, s, loc), LAMBDA x :
    With(IF x.ok THEN residue(s, x.loc) ELSE NoMatch, LAMBDA r :
        IF r.ok THEN Match(r.loc, <<Str_(EXCEPT_)>> \o r.toks) ELSE NoMatch))

\* quantifier = exactly | atleast | notmorethan
quantifier(s, loc) ==
    IF Literal(EXACTLY_, s, loc).ok THEN Literal(EXACTLY_, s, loc)
    ELSE IF Literal(ATLEAST_, s, loc).ok THEN Literal(ATLEAST_, s, loc)
    ELSE Literal(NOTMORETHAN_, s, loc)

\* inequality = quantifier + integer, with the parse action EqualityExpr.
inequality(s, loc) ==
    With(quantifier(s, loc), LAMBDA q :
    With(IF q.ok THEN integer(s, q.loc) ELSE NoMatch, LAMBDA n :
        IF n.ok
        THEN Match(n.loc, <<EqualityExpr(KeywordOf(q.toks[1]), IntOf(n.toks[1]))>>)
        ELSE NoMatch))

\* delimitedList(residue): residue + ZeroOrMore(Suppress(',') + residue)
RECURSIVE MoreResidues(_, _, _)
MoreResidues(s, loc, toks) ==
    With(Literal(<<",">>, s, loc), LAMBDA c :
    With(IF c.ok THEN residue(s, c.loc) ELSE NoMatch, LAMBDA r :
        IF r.ok THEN MoreResidues(s, r.loc, toks \o r.toks) ELSE Match(loc, toks)))

\* residue_list = l_par + delimitedList(residue) + r_par
residue_list(s, loc) ==
    With(Literal(<<"(">>, s, loc), LAMBDA l :
    With(IF l.ok THEN residue(s, l.loc) ELSE NoMatch, LAMBDA r :
    With(IF r.ok THEN MoreResidues(s, r.loc, r.toks) ELSE NoMatch, LAMBDA rs :
    With(IF rs.ok THEN Literal(<<")">>, s, rs.loc) ELSE NoMatch, LAMBDA e :
        IF e.ok THEN Match(e.loc, rs.toks) ELSE NoMatch))))

\* bool_ = TRUE | FALSE, suppressed, with the parse actions BoolTrue and
\* BoolFalse.
bool_(s, loc) ==
    IF Literal(TRUE_, s, loc).ok THEN Match(Literal(TRUE_, s, loc).loc, <<BoolTrue>>)
    ELSE IF Literal(FALSE_, s, loc).ok
    THEN Match(Literal(FALSE_, s, loc).loc, <<BoolFalse>>)
    ELSE NoMatch

\* AsiBinaryExpr.__init__ as OrExpr inherits it: the children are the operands
\* of the group, however many.
OrExprNew(tokens) == [node |-> "OrExpr", children |-> tokens]

\* infixNotation(base, [(and_, 2, opAssoc.LEFT, AndExpr),
\*                      (or_, 2, opAssoc.LEFT, OrExpr)]) for the two bases the
\* grammar uses it with, inequality and condition.  An operand is the base or
\* the whole expression in parentheses; a level is Group(operand (op
\* operand)+) with its parse action, or else the operand alone.
RECURSIVE InfixOperand(_, _, _)
RECURSIVE InfixMore(_, _, _, _, _)
RECURSIVE InfixAnd(_, _, _)
RECURSIVE InfixOr(_, _, _)
RECURSIVE selectstatement(_, _)
RECURSIVE condition(_, _)

InfixOperand(base, s, loc) ==
    With(IF base = "inequality" THEN inequality(s, loc) ELSE condition(s, loc),
         LAMBDA b :
        IF b.ok THEN b
        ELSE With(Literal(<<"(">>, s, loc), LAMBDA l :
             With(IF l.ok THEN InfixOr(base, s, l.loc) ELSE NoMatch, LAMBDA inner :
             With(IF inner.ok THEN Literal(<<")">>, s, inner.loc) ELSE NoMatch,
                  LAMBDA r :
                 IF r.ok THEN Match(r.loc, inner.toks) ELSE NoMatch))))

\* (op operand)*, op being AND between operands and OR between AND levels.
InfixMore(base, op, s, loc, toks) ==
    With(Literal(op, s, loc), LAMBDA o :
    With(IF ~o.ok THEN NoMatch
         ELSE IF op = AND_ THEN InfixOperand(base, s, o.loc)
         ELSE InfixAnd(base, s, o.loc), LAMBDA x :
        IF x.ok THEN InfixMore(base, op, s, x.loc, toks \o x.toks)
        ELSE Match(loc, toks)))

InfixAnd(base, s, loc) ==
    With(InfixOperand(base, s, loc), LAMBDA a :
        IF ~a.ok THEN NoMatch
        ELSE With(InfixMore(base, AND_, s, a.loc, a.toks), LAMBDA more :
                 IF more.loc = a.loc THEN a
                 ELSE Match(more.loc, <<AndExpr(more.toks)>>)))

\* infixNotation with AND and OR on one level, grouped from the left.
RECURSIVE InfixFlatMore(_, _, _, _)
InfixFlatMore(base, s, loc, acc) ==
    With(Literal(AND_, s, loc), LAMBDA a :
    With(IF a.ok THEN InfixOperand(base, s, a.loc) ELSE NoMatch, LAMBDA x :
        IF x.ok
        THEN InfixFlatMore(base, s, x.loc, AndExpr(<<acc, x.toks[1]>>))
        ELSE With(Literal(OR_, s, loc), LAMBDA o :
             With(IF o.ok THEN InfixOperand(base, s, o.loc) ELSE NoMatch, LAMBDA y :
                 IF y.ok
                 THEN InfixFlatMore(base, s, y.loc, OrExprNew(<<acc, y.toks[1]>>))
                 ELSE Match(loc, <<acc>>)))))

InfixOrFlat(base, s, loc) ==
    With(InfixOperand(base, s, loc), LAMBDA a :
        IF ~a.ok THEN NoMatch ELSE InfixFlatMore(base, s, a.loc, a.toks[1]))

InfixOr(base, s, loc) ==
    With(InfixAnd(base, s, loc), LAMBDA a :
        IF ~a.ok THEN NoMatch
        ELSE With(InfixMore(base, OR_, s, a.loc, a.toks), LAMBDA more :
                 IF more.loc = a.loc THEN a
                 ELSE Match(more.loc, <<OrExprNew(more.toks)>>)))

\* selectstatement = select + select_quantifier + from_ + residue_list, with
\* the parse action SelectFrom.
selectstatement(s, loc) ==
    With(Literal(SELECT_, s, loc), LAMBDA k :
    With(IF k.ok THEN InfixOr("inequality", s, k.loc) ELSE NoMatch, LAMBDA q :
    With(IF q.ok THEN Literal(FROM_, s, q.loc) ELSE NoMatch, LAMBDA f :
    With(IF f.ok THEN residue_list(s, f.loc) ELSE NoMatch, LAMBDA rs :
        IF rs.ok THEN Match(rs.loc, <<SelectFrom(q.toks[1], rs.toks)>>)
        ELSE NoMatch))))

\* condition = residue | excludestatement | selectstatement | bool_
condition(s, loc) ==
    With(residue(s, loc), LAMBDA r :
        IF r.ok THEN r
        ELSE With(excludestatement(s, loc), LAMBDA x :
            IF x.ok THEN x
            ELSE With(selectstatement(s, loc), LAMBDA k :
                IF k.ok THEN k ELSE bool_(s, loc))))

\* booleancondition << infixNotation(condition, ...) | condition: << binds
\* before |, so booleancondition is the infixNotation and the alternative
\* is dropped.
booleancondition(s, loc) == InfixOr("condition", s, loc)

Lowercase ==
    <<"a", "b", "c", "d", "e", "f", "g", "h", "i", "j", "k", "l", "m",
      "n", "o", "p", "q", "r", "s", "t", "u", "v", "w", "x", "y", "z">>
\* [a-zA-Z0-9 _]
LabelChars ==
    {Lowercase[i] : i \in 1..Len(Lowercase)} \cup UppercaseChars \cup DigitChars
    \cup {" ", "_"}

\* score = Optional(Literal('-')) + integer
\*         | quote + Regex(r'[a-zA-Z0-9 _]+') + quote
\* The tokens are kept as ScoreExpr.__call__ reads them: int(score) for the
\* digits, the strings '-' and '"', and the label.
score(s, loc) ==
    LET m == Literal(<<"-">>, s, loc)
        n == integer(s, IF m.ok THEN m.loc ELSE loc)
        q1 == Literal(<<"\"">>, s, loc)
        j == IF q1.ok THEN SkipWhitespace(s, q1.loc) ELSE 0
        e == IF q1.ok THEN RunEnd(s, j, LabelChars) ELSE 0
        q2 == IF q1.ok /\ e > j THEN Literal(<<"\"">>, s, e) ELSE NoMatch
    IN  IF n.ok
        THEN Match(n.loc, (IF m.ok THEN <<"-">> ELSE << >>) \o <<IntOf(n.toks[1])>>)
        ELSE IF q2.ok THEN Match(q2.loc, <<"\"", SubSeq(s, j, e - 1), "\"">>)
        ELSE NoMatch

\* scoreitem = booleancondition + mapper + score, with the parse action
\* ScoreExpr.
scoreitem(s, loc) ==
    With(booleancondition(s, loc), LAMBDA c :
    With(IF c.ok THEN Literal(MAPPER_, s, c.loc) ELSE NoMatch, LAMBDA m :
    With(IF m.ok THEN score(s, m.loc) ELSE NoMatch, LAMBDA v :
        IF v.ok THEN Match(v.loc, <<ScoreExpr(c.toks \o v.toks)>>) ELSE NoMatch)))

\* delimitedList(scoreitem)
RECURSIVE MoreScoreItems(_, _, _)
MoreScoreItems(s, loc, toks) ==
    With(Literal(<<",">>, s, loc), LAMBDA c :
    With(IF c.ok THEN scoreitem(s, c.loc) ELSE NoMatch, LAMBDA i :
        IF i.ok THEN MoreScoreItems(s, i.loc, toks \o i.toks) ELSE Match(loc, toks)))

scoreitems(s, loc) ==
    With(scoreitem(s, loc), LAMBDA i :
        IF i.ok THEN MoreScoreItems(s, i.loc, i.toks) ELSE NoMatch)

\* scorelist = max_ + l_par + delimitedList(scoreitem) + r_par
\*             | delimitedList(scoreitem), with the parse action ScoreList,
\* whose __call__ takes the operation from the first child.
scorelist(s, loc) ==
    With(Literal(MAX_, s, loc), LAMBDA k :
    With(IF k.ok THEN Literal(<<"(">>, s, k.loc) ELSE NoMatch, LAMBDA l :
    With(IF l.ok THEN scoreitems(s, l.loc) ELSE NoMatch, LAMBDA inside :
    With(IF inside.ok THEN Literal(<<")">>, s, inside.loc) ELSE NoMatch, LAMBDA r :
        IF r.ok THEN Match(r.loc, <<ScoreList("MAX", inside.toks)>>)
        ELSE With(scoreitems(s, loc), LAMBDA bare :
                 IF bare.ok THEN Match(bare.loc, <<ScoreList("SUM", bare.toks)>>)
                 ELSE NoMatch)))))

\* delimitedList(scorelist)
RECURSIVE MoreScoreLists(_, _, _)
MoreScoreLists(s, loc, toks) ==
    With(Literal(<<",">>, s, loc), LAMBDA c :
    With(IF c.ok THEN scorelist(s, c.loc) ELSE NoMatch, LAMBDA l :
        IF l.ok THEN MoreScoreLists(s, l.loc, toks \o l.toks) ELSE Match(loc, toks)))

\* scorecondition = Literal('SCORE FROM') + l_par + delimitedList(scorelist)
\*                  + r_par, with the parse action AsiScoreCond.
scorecondition(s, loc) ==
    With(Literal(SCORE_FROM_, s, loc), LAMBDA k :
    With(IF k.ok THEN Literal(<<"(">>, s, k.loc) ELSE NoMatch, LAMBDA l :
    With(IF l.ok THEN scorelist(s, l.loc) ELSE NoMatch, LAMBDA first :
    With(IF first.ok THEN MoreScoreLists(s, first.loc, first.toks) ELSE NoMatch,
         LAMBDA lists :
    With(IF lists.ok THEN Literal(<<")">>, s, lists.loc) ELSE NoMatch, LAMBDA r :
        IF r.ok THEN Match(r.loc, <<AsiScoreCond(lists.toks)>>) ELSE NoMatch)))))

\* statement = booleancondition | scorecondition
statement(s, loc) ==
    With(booleancondition(s, loc), LAMBDA b :
        IF b.ok THEN b ELSE scorecondition(s, loc))

\* statement.parseString(rule): the match from the start of the text, wherever
\* it ends; ParseException when there is none.
parseString(s) == statement(s, 1)

(***************************************************************************)
(* The program: a rule (a parsed AST) and an environment (a VariantCalls)  *)
(* are given; Evaluate is rule.dtree(env).                                 *)
(***************************************************************************)
MaxPos == 3

Positions == 1..MaxPos
Wildtypes == {"", "A", "R"}

\* The environments VariantCalls(text) builds from terms such as 1G, R1d or
\* A1GS: at each position no term, or one term with the wildtype and the
\* variants of `terms`.
VariantCallsOver(terms) ==
    LET Absent == <<"", {}>>
        Picks == [Positions -> terms \cup {Absent}]
    IN  {{MutationSetNew(f[p][1], p, FALSE, f[p][2]) :
            p \in {q \in Positions : f[q] # Absent}} : f \in Picks}

AtomEnvs == VariantCallsOver(Wildtypes \X {{"G"}, {"d"}, {"G", "S"}})

\* The atoms the residue production builds: Optional([A-Z]) integer !?[diA-Z]+.
AtomSets ==
    {MutationSetNew(w, p, neg, vs) :
        w \in Wildtypes, p \in Positions, neg \in BOOLEAN,
        vs \in {{"G"}, {"S"}, {"G", "d"}}}

Evaluate ==
    /\ pc = "parsed"
    /\ outcome' = Call(rule, env)
    /\ pc' = "evaluated"
    /\ UNCHANGED <<rule, env, text, mset, heap, operands, evals>>

NoOutcome == [kind |-> "none"]
NoText == << >>
NoSet == [pos |-> 0, mutations |-> {}, wildtype |-> None]
NoHeap == << >>
NoOperands == << >>
NoEvals == << >>

InitAtom ==
    /\ rule \in {AsiMutations(ms) : ms \in AtomSets}
    /\ env \in AtomEnvs
    /\ outcome = NoOutcome
    /\ heap = NoHeap
    /\ operands = NoOperands
    /\ evals = NoEvals
    /\ pc = "parsed"
    /\ text = NoText
    /\ mset = NoSet

NextAtom == Evaluate

SpecAtom == InitAtom /\ [][NextAtom]_vars

(***************************************************************************)
(* Boolean conditions: the rules the booleancondition production builds    *)
(* from residues, TRUE, FALSE, SELECT statements, AND and OR.              *)
(***************************************************************************)
MaxLimit == 2

\* Atoms 1G, A1G, R1G, 2G, 3G, ...: the first position also with a wildtype.
BoolAtomsAt(p) ==
    {AsiMutations(MutationSetNew(w, p, FALSE, {"G"})) :
        w \in IF p = 1 THEN Wildtypes ELSE {""}}

BoolAtoms == UNION {BoolAtomsAt(p) : p \in Positions}

Leaves == BoolAtoms \cup {BoolTrue, BoolFalse}

\* Environments of terms pG, pd and, at the first position, R1G and 1GS.
BoolEnvs ==
    {e \in VariantCallsOver({"", "R"} \X {{"G"}, {"d"}, {"G", "S"}}) :
        \A ms \in e :
            /\ ms.wildtype # None => ms.pos = 1 /\ Variants0(ms) = {"G"}
            /\ Variants0(ms) = {"G", "S"} => ms.pos = 1}

\* inequality, and select_quantifier joining two of them.
Inequalities ==
    {EqualityExpr(op, n) :
        op \in {"ATLEAST", "EXACTLY", "NOTMORETHAN"}, n \in 0..MaxLimit}

Quantifiers ==
    Inequalities
    \cup {AndExpr(<<EqualityExpr("ATLEAST", 1), EqualityExpr("NOTMORETHAN", MaxLimit)>>),
          OrExpr(EqualityExpr("EXACTLY", 0), EqualityExpr("ATLEAST", MaxLimit))}

\* residue_list: atoms at increasing positions.
RECURSIVE ResidueLists(_)
ResidueLists(p) ==
    IF p > MaxPos THEN {<< >>}
    ELSE ResidueLists(p + 1)
         \cup {<<a>> \o rest : a \in BoolAtomsAt(p), rest \in ResidueLists(p + 1)}

Selects ==
    {SelectFrom(q, rest) : q \in Quantifiers, rest \in ResidueLists(1) \ {<< >>}}

NestedSelects ==
    {SelectFrom(q, rest) :
        q \in {EqualityExpr("ATLEAST", 1), EqualityExpr("EXACTLY", MaxLimit),
               EqualityExpr("NOTMORETHAN", 1)},
        rest \in ResidueLists(1) \ {<< >>}}

Pairs == {AndExpr(<<a, b>>) : a \in Leaves, b \in Leaves}
         \cup {OrExpr(a, b) : a \in Leaves, b \in Leaves}

Nested(xs, ys) ==
    {AndExpr(<<x, y>>) : x \in xs, y \in ys} \cup {AndExpr(<<y, x>>) : x \in xs, y \in ys}
    \cup {OrExpr(x, y) : x \in xs, y \in ys} \cup {OrExpr(y, x) : x \in xs, y \in ys}

\* score: an integer, '-' and an integer, or a quoted label.
SmallScoreItems(conds) ==
    {ScoreExpr(<<c>> \o slot) :
        c \in conds, slot \in {<<1>>, <<"-", 1>>, <<"\"", "flag1", "\"">>}}

\* SCORE FROM ( item, item ) and SCORE FROM ( MAX ( item, item ) ).
SmallScoreRules ==
    {AsiScoreCond(<<ScoreList(op, <<i1, i2>>)>>) :
        op \in {"SUM", "MAX"},
        i1 \in SmallScoreItems(BoolAtoms), i2 \in SmallScoreItems(Leaves)}

BoolRules ==
    Leaves \cup Pairs \cup SmallScoreRules
    \cup {AndExpr(<<a, b, c>>) : a \in BoolAtoms, b \in BoolAtoms, c \in BoolAtoms}
    \cup Selects
    \cup Nested(Pairs, Leaves)
    \cup Nested(NestedSelects, Leaves)

InitBool ==
    /\ rule \in BoolRules
    /\ env \in BoolEnvs
    /\ outcome = NoOutcome
    /\ heap = NoHeap
    /\ operands = NoOperands
    /\ evals = NoEvals
    /\ pc = "parsed"
    /\ text = NoText
    /\ mset = NoSet

NextBool == Evaluate

SpecBool == InitBool /\ [][NextBool]_vars


(***************************************************************************)
(* Score conditions: the rules the scorecondition production builds.       *)
(***************************************************************************)
MaxScore == 2

Labels == {"flag1", "flag2"}

\* The residue texts of the score items' conditions, as <<wildtype, position,
\* '!' or not, variant letters>>: 1G and 1!GS at the first position, 2G and 3G
\* at the next two.
ResidueTextsAt(p) ==
    IF p = 1 THEN {<<"", 1, FALSE, {"G"}>>, <<"", 1, TRUE, {"G", "S"}>>}
    ELSE IF p <= 3 THEN {<<"", p, FALSE, {"G"}>>}
    ELSE {}

ResidueAtom(t) == AsiMutations(MutationSetNew(t[1], t[2], t[3], t[4]))

\* The conditions of the score items that stand at position p of a list: the
\* atoms of position p and, at position 3, the conjunction (1G AND 3G).
ScoreCondsAt(p) ==
    IF p = 3
    THEN {AndExpr(<<ResidueAtom(<<"", 1, FALSE, {"G"}>>), ResidueAtom(t)>>) :
            t \in ResidueTextsAt(p)}
    ELSE {ResidueAtom(t) : t \in ResidueTextsAt(p)}

\* score: an integer, '-' and an integer, or a quoted label.
ScoreSlots ==
    {<<n>> : n \in 0..MaxScore} \cup {<<"-", n>> : n \in 1..MaxScore}
    \cup {<<"\"", l, "\"">> : l \in Labels}

ScoreItemsAt(p) == {ScoreExpr(<<c>> \o slot) : c \in ScoreCondsAt(p), slot \in ScoreSlots}

\* delimitedList(scoreitem): items whose conditions stand at increasing positions.
RECURSIVE ScoreItemLists(_)
ScoreItemLists(p) ==
    IF p > MaxPos THEN {<< >>}
    ELSE ScoreItemLists(p + 1)
         \cup {<<i>> \o rest : i \in ScoreItemsAt(p), rest \in ScoreItemLists(p + 1)}

\* scorelist: MAX ( items ) or the items alone.
ScoreLists ==
    {ScoreList(op, items) :
        op \in {"SUM", "MAX"}, items \in ScoreItemLists(1) \ {<< >>}}

OneItemLists(p) ==
    {ScoreList(op, <<i>>) : op \in {"SUM", "MAX"}, i \in ScoreItemsAt(p)}

\* scorecondition: SCORE FROM ( scorelist ) and SCORE FROM ( scorelist, scorelist ).
ScoreRules ==
    {AsiScoreCond(<<l>>) : l \in ScoreLists}
    \cup {AsiScoreCond(<<l1, l2>>) : l1 \in OneItemLists(1), l2 \in OneItemLists(2)}

\* Environments with a set at every position: 1G, 1S, 1W, 1d or A1G at the
\* first, pG or pd at the others.
ScoreEnvs ==
    {e \in VariantCallsOver({"", "A"} \X {{"G"}, {"S"}, {"W"}, {"d"}}) :
        /\ {ms.pos : ms \in e} = Positions
        /\ \A ms \in e :
            /\ ms.wildtype # None => ms.pos = 1 /\ Variants0(ms) = {"G"}
            /\ Variants0(ms) \in {{"S"}, {"W"}} => ms.pos = 1}

InitScore ==
    /\ rule \in ScoreRules
    /\ env \in ScoreEnvs
    /\ outcome = NoOutcome
    /\ heap = NoHeap
    /\ operands = NoOperands
    /\ evals = NoEvals
    /\ pc = "parsed"
    /\ text = NoText
    /\ mset = NoSet

NextScore == Evaluate

SpecScore == InitScore /\ [][NextScore]_vars


(***************************************************************************)
(* Parsing: a rule text is given; Parse is HCVR(text), which keeps the     *)
(* first token of statement.parseString(text) as the rule's tree.          *)
(***************************************************************************)
MaxLen == 4

EXCLUDE_ == <<"E", "X", "C", "L", "U", "D", "E">>
Residue1G == <<"1", "G">>
Residue2G == <<"2", "G">>

\* ' '.join(words)
RECURSIVE JoinWords(_)
JoinWords(words) ==
    IF words = << >> THEN << >>
    ELSE IF Len(words) = 1 THEN words[1]
    ELSE words[1] \o <<" ">> \o JoinWords(Tail(words))

\* Texts of up to MaxLen words of boolean conditions, well formed or not:
\* EXCLUDE is not a word of the grammar.
BoolWords ==
    {Residue1G, Residue2G, AND_, OR_, <<"(">>, <<")">>, TRUE_, EXCLUDE_}
BoolTexts == UNION {{JoinWords(ws) : ws \in [1..k -> BoolWords]} : k \in 0..MaxLen}

\* SELECT and SCORE FROM statements and EXCEPT, cut after any number of
\* their words and followed by nothing or by one more word.
Templates ==
    {<<SELECT_, ATLEAST_, <<"1">>, FROM_, <<"(">>, Residue1G, <<",">>, Residue2G, <<")">>>>,
     <<SELECT_, ATLEAST_, <<"1">>, AND_, NOTMORETHAN_, <<"2">>, FROM_,
       <<"(">>, Residue1G, <<")">>>>,
     <<SCORE_FROM_, <<"(">>, Residue1G, MAPPER_, <<"2">>, <<",">>,
       Residue2G, MAPPER_, <<"-">>, <<"1">>, <<")">>>>,
     <<SCORE_FROM_, <<"(">>, MAX_, <<"(">>, Residue1G, MAPPER_, <<"2">>, <<")">>,
       <<",">>, Residue2G, MAPPER_, <<"\"", "f", "\"">>, <<")">>>>,
     <<SCORE_FROM_, <<"(">>, Residue1G, MAPPER_, <<"2", ";", "0">>, <<")">>>>,
     <<EXCEPT_, Residue1G>>}
RPar == <<")">>
Tails == {<< >>, <<AND_>>, <<AND_, Residue2G>>, <<RPar>>, <<Residue2G>>, <<EXCLUDE_>>}
TemplateTexts ==
    {JoinWords(SubSeq(t, 1, k) \o tail) :
        <<t, k>> \in {<<u, n>> \in Templates \X (0..13) : n <= Len(u)},
        tail \in Tails}

RuleTexts == BoolTexts \cup TemplateTexts

NoRule == [node |-> "none"]

InitParse ==
    /\ text \in RuleTexts
    /\ rule = NoRule
    /\ env = {}
    /\ outcome = NoOutcome
    /\ heap = NoHeap
    /\ operands = NoOperands
    /\ evals = NoEvals
    /\ mset = NoSet
    /\ pc = "text"

\* HCVR(text): the tree of the statement matched at the start of the text, or
\* the ParseException of statement.parseString.
Parse ==
    /\ pc = "text"
    /\ \E m \in {parseString(text)} :
           IF m.ok
           THEN /\ rule' = Head(m.toks)
                /\ pc' = "parsed"
                /\ UNCHANGED outcome
           ELSE /\ outcome' = Raise("ParseException", 0)
                /\ pc' = "failed"
                /\ UNCHANGED rule
    /\ UNCHANGED <<env, text, mset, heap, operands, evals>>

NextParse == Parse

SpecParse == InitParse /\ [][NextParse]_vars

(***************************************************************************)
(* The text form of a mutation set: str(mset) and MutationSet(text).       *)
(***************************************************************************)
\* Variant letters: none, one, the first ten or eighteen letters of the
\* alphabet, each with any of M, N, d and i added, which gives sets on both
\* sides of the ten variants where __str__ changes form.
StrVariants ==
    {base \cup more :
        base \in {{}, {"G"}, {AMINO_ALPHABET[i] : i \in 1..10},
                  AminoLetters \ {"M", "N"}},
        more \in SUBSET {"M", "N", "d", "i"}}

StrPositions == Positions \cup {10 * p : p \in Positions}

\* MutationSet(wildtype=w, pos=p, variants=vs); without a wildtype and without
\* variants the construction raises.
StrSets ==
    {MutationSetNew(w, p, FALSE, vs) :
        w \in {"", "A"}, p \in StrPositions,
        vs \in {v \in StrVariants : v # {}}}
    \cup {MutationSetNew("A", p, FALSE, {}) : p \in StrPositions}

InitStr ==
    /\ mset \in StrSets
    /\ text = NoText
    /\ rule = NoRule
    /\ env = {}
    /\ outcome = NoOutcome
    /\ heap = NoHeap
    /\ operands = NoOperands
    /\ evals = NoEvals
    /\ pc = "set"

\* text = str(mset)
Str ==
    /\ pc = "set"
    /\ text' = MutationSetStr(mset)
    /\ pc' = "text"
    /\ UNCHANGED <<rule, env, outcome, mset, heap, operands, evals>>

\* MutationSet(text)
FromText ==
    /\ pc = "text"
    /\ outcome' = LET made == MutationSetFromText(text)
                  IN  IF "kind" \in DOMAIN made THEN made
                      ELSE [kind |-> "MutationSet", value |-> made]
    /\ pc' = "made"
    /\ UNCHANGED <<rule, env, text, mset, heap, operands, evals>>

NextStr == Str \/ FromText

SpecStr == InitStr /\ [][NextStr]_vars

(***************************************************************************)
(* Objects with identity.  A dict or a list is an object of heap, found by *)
(* its address <<owner, n>>: the n-th object that owner (an evaluation, or *)
(* the caller that built the operands) created.  A dict's items map its    *)
(* keys to addresses of lists, a list's items are addresses of lists.  A   *)
(* Score whose flags is an address is a Score object holding that dict.    *)
(***************************************************************************)
Dict(items) == [type |-> "dict", items |-> items]
List(items) == [type |-> "list", items |-> items]

\* A dict or list display that yields an object made earlier when an equal one
\* exists (as a default argument evaluated once would).
AllocShared(h, owner, obj) ==
    IF \E a \in DOMAIN h : h[a] = obj
    THEN [heap |-> h, at |-> CHOOSE a \in DOMAIN h : h[a] = obj]
    ELSE LET at == <<owner, 1 + Cardinality({a \in DOMAIN h : a[1] = owner})>>
         IN  [heap |-> [a \in DOMAIN h \cup {at} |-> IF a = at THEN obj ELSE h[a]],
              at |-> at]

\* {} and []: a new object each time the display is evaluated.
Alloc(h, owner, obj) ==
    LET at == <<owner, 1 + Cardinality({a \in DOMAIN h : a[1] = owner})>>
    IN  [heap |-> [a \in DOMAIN h \cup {at} |-> IF a = at THEN obj ELSE h[a]],
         at |-> at]

\* Score(score, residues): flags is None, so self.flags = {}.
ScoreNew(h, owner, value, residues) ==
    LET made == Alloc(h, owner, Dict(<< >>))
    IN  [heap |-> made.heap, result |-> Score(value, residues, made.at)]

LabelOrder == <<"flag1", "flag2">>

\* `for k in snd`: the keys of the dict at address d.
KeysOf(h, d) == InOrder(LabelOrder, DOMAIN h[d].items)

\* One turn of update_flags' loop: fst[k].append(snd[k]) changes the list that
\* fst[k] is, fst[k] = snd[k] changes the dict fst and makes snd's list an
\* item of it.
update_flag(h, fst, snd, k) ==
    IF k \in DOMAIN h[fst].items
    THEN [h EXCEPT ![h[fst].items[k]].items = Append(@, h[snd].items[k])]
    ELSE [h EXCEPT ![fst].items =
              [j \in (DOMAIN @) \cup {k} |->
                  IF j = k THEN h[snd].items[k] ELSE @[j]]]

\* update_flags(fst, snd) on the objects; it returns fst.
RECURSIVE update_flags_in_place(_, _, _, _)
update_flags_in_place(h, fst, snd, keys) ==
    IF keys = << >> THEN h
    ELSE update_flags_in_place(update_flag(h, fst, snd, Head(keys)),
                               fst, snd, Tail(keys))

PySub(a, b) == PyInt(a.n - b.n)

\* Score.__add__ and Score.__sub__ after update_flags: the new Score holds the
\* dict update_flags returned, which is self.flags.
ScoreSum(self, other) ==
    IF SetOpRaises(self.residues, other.residues) THEN Raise("ValueError", 0)
    ELSE Score(PyAdd(self.score, other.score),
               SetOr(self.residues, other.residues), self.flags)

ScoreDifference(self, other) ==
    IF SetOpRaises(self.residues, other.residues) THEN Raise("ValueError", 0)
    ELSE Score(PySub(self.score, other.score),
               SetOr(self.residues, other.residues), self.flags)

\* ScoreExpr.__call__ on the objects: flags = {} and, for a flag item,
\* flags[flag] = [] come first; a false condition gives Score(0, []) with a
\* dict of its own.
ScoreExprCallAt(h, owner, self, result) ==
    LET d == Alloc(h, owner, Dict(<< >>))
        l == Alloc(d.heap, owner, List(<< >>))
        h1 == IF Len(self.children) = 4
              THEN [l.heap EXCEPT ![d.at].items = [k \in {self.children[3]} |-> l.at]]
              ELSE d.heap
        value == ScoreExprCall(self, result)
    IN  IF Raised(value) THEN [heap |-> h1, result |-> value]
        ELSE IF IsFalse(result.score) THEN ScoreNew(h1, owner, PyInt(0), {})
        ELSE [heap |-> h1, result |-> Score(value.score, value.residues, d.at)]

\* ScoreList.__call__ on the objects: flags = {} and flags.update(score.flags)
\* for each score, which makes the scores' lists items of the new dict.
ScoreListCallAt(h, owner, self, scores) ==
    LET value == ScoreListCall(self, [i \in DOMAIN scores |->
                                        [scores[i] EXCEPT !.flags = EmptyDict]])
        items == FlagsOf([i \in DOMAIN scores |-> [flags |-> h[scores[i].flags].items]],
                         1, EmptyDict)
        d == Alloc(h, owner, Dict(items))
    IN  IF Raised(value) THEN [heap |-> h, result |-> value]
        ELSE [heap |-> d.heap, result |-> Score(value.score, value.residues, d.at)]

(***************************************************************************)
(* Interleaved evaluations: MaxEvals callers evaluate the one parsed rule, *)
(* each against its own mutations, and their steps interleave.  A step is  *)
(* one call of a score item, one call of a score list, one turn of         *)
(* update_flags' loop, or the making of the sum's Score.                   *)
(***************************************************************************)
MaxEvals == 2

Evals == 1..MaxEvals

\* SCORE FROM ( item, item ) with the items TRUE => "flag1", 1G => "flag1"
\* and 1G => 1.
IsoItems ==
    {ScoreExpr(<<BoolTrue, "\"", "flag1", "\"">>),
     ScoreExpr(<<ResidueAtom(<<"", 1, FALSE, {"G"}>>), "\"", "flag1", "\"">>),
     ScoreExpr(<<ResidueAtom(<<"", 1, FALSE, {"G"}>>), 1>>)}

IsoRules ==
    {AsiScoreCond(<<ScoreList("SUM", <<i1>>), ScoreList("SUM", <<i2>>)>>) :
        i1 \in IsoItems, i2 \in IsoItems}

\* 1G, 1S, and no set at position 1.
IsoEnvs ==
    {{MutationSetNew("", 1, FALSE, {"G"})}, {MutationSetNew("", 1, FALSE, {"S"})}, {}}

NoScore == [kind |-> "none"]

InitInterleaved ==
    /\ rule \in IsoRules
    /\ evals \in [Evals -> {[pc |-> "start", mutations |-> m, child |-> 1,
                             term |-> 1, scores |-> << >>, keys |-> << >>,
                             acc |-> NoScore, score |-> NoScore,
                             result |-> NoScore] : m \in IsoEnvs}]
    /\ heap = NoHeap
    /\ env = {}
    /\ outcome = NoOutcome
    /\ operands = NoOperands
    /\ pc = "parsed"
    /\ text = NoText
    /\ mset = NoSet

\* sum(..., Score(False, set())): the start value is made first.
Begin(e) ==
    /\ evals[e].pc = "start"
    /\ \E made \in {ScoreNew(heap, e, PyBool(FALSE), {})} :
           /\ heap' = made.heap
           /\ evals' = [evals EXCEPT ![e].pc = "term", ![e].acc = made.result]
    /\ UNCHANGED <<rule, env, outcome, pc, text, mset, operands>>

\* scores = [f(mutations) for f in terms]: the next term's call.
CallTerm(e) ==
    /\ evals[e].pc = "term"
    /\ \E self \in {rule.children[evals[e].child].terms[evals[e].term]} :
       \E made \in {ScoreExprCallAt(heap, e, self,
                                    Call(self.children[1], evals[e].mutations))} :
           /\ heap' = made.heap
           /\ evals' =
                IF Raised(made.result)
                THEN [evals EXCEPT ![e].pc = "done", ![e].result = made.result]
                ELSE [evals EXCEPT
                        ![e].scores = Append(@, made.result),
                        ![e].term = @ + 1,
                        ![e].pc = IF evals[e].term
                                     = Len(rule.children[evals[e].child].terms)
                                  THEN "list" ELSE "term"]
    /\ UNCHANGED <<rule, env, outcome, pc, text, mset, operands>>

\* The rest of ScoreList.__call__; then Score.__add__ begins with update_flags.
CallList(e) ==
    /\ evals[e].pc = "list"
    /\ \E made \in {ScoreListCallAt(heap, e, rule.children[evals[e].child],
                                    evals[e].scores)} :
           /\ heap' = made.heap
           /\ evals' =
                IF Raised(made.result)
                THEN [evals EXCEPT ![e].pc = "done", ![e].result = made.result]
                ELSE [evals EXCEPT
                        ![e].score = made.result,
                        ![e].keys = KeysOf(made.heap, made.result.flags),
                        ![e].pc = "add"]
    /\ UNCHANGED <<rule, env, outcome, pc, text, mset, operands>>

\* One turn of `for k in snd` in update_flags(self.flags, other.flags).
MergeKey(e) ==
    /\ evals[e].pc = "add"
    /\ evals[e].keys # << >>
    /\ heap' = update_flag(heap, evals[e].acc.flags, evals[e].score.flags,
                           Head(evals[e].keys))
    /\ evals' = [evals EXCEPT ![e].keys = Tail(@)]
    /\ UNCHANGED <<rule, env, outcome, pc, text, mset, operands>>

\* The Score of acc + score; the sum goes on to the next child or returns.
Sum(e) ==
    /\ evals[e].pc = "add"
    /\ evals[e].keys = << >>
    /\ \E made \in {ScoreSum(evals[e].acc, evals[e].score)} :
           evals' =
                IF Raised(made)
                THEN [evals EXCEPT ![e].pc = "done", ![e].result = made]
                ELSE IF evals[e].child = Len(rule.children)
                THEN [evals EXCEPT ![e].pc = "done", ![e].acc = made,
                                   ![e].result = made]
                ELSE [evals EXCEPT ![e].pc = "term", ![e].acc = made,
                                   ![e].child = @ + 1, ![e].term = 1,
                                   ![e].scores = << >>]
    /\ UNCHANGED <<rule, env, outcome, pc, text, mset, operands, heap>>

NextInterleaved ==
    \E e \in Evals : Begin(e) \/ CallTerm(e) \/ CallList(e) \/ MergeKey(e) \/ Sum(e)

SpecInterleaved == InitInterleaved /\ [][NextInterleaved]_vars

(***************************************************************************)
(* vcf.py: VariantCalls.__new__, from a text of terms and from a reference *)
(* and a sample.                                                           *)
(***************************************************************************)
MaxRef == 2
MaxTerms == 2

\* The end of the run of characters that are not whitespace.
RECURSIVE WordEnd(_, _)
WordEnd(s, loc) ==
    IF loc <= Len(s) /\ s[loc] \notin Whitespace THEN WordEnd(s, loc + 1) ELSE loc

\* text.split()
RECURSIVE Split(_, _)
Split(s, loc) ==
    With(SkipWhitespace(s, loc),
         LAMBDA j : IF j > Len(s) THEN << >>
                    ELSE <<SubSeq(s, j, WordEnd(s, j) - 1)>>
                            \o Split(s, WordEnd(s, j)))

\* MutationSet.__hash__: hash((self.pos, self.mutations)), the frozenset's
\* hash being made of its mutations' hashes.
MutationSetHash(ms) == <<ms.pos, {MutationHash(m) : m \in ms.mutations}>>

\* frozenset(sets) and the set comprehension: a set whose hash is that of one
\* already taken is compared with it by __eq__, which drops it when equal and
\* can raise; [raised, set].
RECURSIVE SetOfMutationSets(_, _, _)
SetOfMutationSets(sets, i, acc) ==
    IF i > Len(sets) THEN [raised |-> FALSE, set |-> acc]
    ELSE LET same == {m \in acc : MutationSetHash(m) = MutationSetHash(sets[i])}
         IN  IF \E m \in same : MutationSetEq(m, sets[i]).kind = "ValueError"
             THEN [raised |-> TRUE, set |-> {}]
             ELSE IF \E m \in same : MutationSetEq(m, sets[i]).value
             THEN SetOfMutationSets(sets, i + 1, acc)
             ELSE SetOfMutationSets(sets, i + 1, acc \cup {sets[i]})

\* The loop over mutation_sets that collects the positions.
MultiplePositions(mutation_sets) ==
    \E a \in mutation_sets, b \in mutation_sets : a # b /\ a.pos = b.pos

\* VariantCalls(text), or ValueError.
VariantCallsFromText(t) ==
    LET terms == Split(t, 1)
        made == [i \in DOMAIN terms |-> MutationSetFromText(terms[i])]
        kept == SetOfMutationSets(made, 1, {})
    IN  IF \E i \in DOMAIN made : "kind" \in DOMAIN made[i] THEN ValueError
        ELSE IF kept.raised THEN ValueError
        ELSE IF MultiplePositions(kept.set) THEN ValueError
        ELSE [kind |-> "VariantCalls", mutation_sets |-> kept.set]

\* VariantCalls(reference=reference, sample=sample) keeping only the positions
\* whose calls are not the reference's letter.
VariantCallsFromSampleDiffering(reference, sample) ==
    LET made == [i \in {j \in DOMAIN sample :
                          sample[j] # << >> /\ CharsOf(sample[j]) # {reference[j]}} |->
                    MutationSetNew(reference[i], i, FALSE, CharsOf(sample[i]))]
    IN  IF Len(reference) # Len(sample) THEN ValueError
        ELSE [kind |-> "VariantCalls",
              mutation_sets |-> {made[i] : i \in DOMAIN made}]

\* VariantCalls(reference=reference, sample=sample): a MutationSet(pos=i,
\* variants=alt, wildtype=ref) for every i whose alt is not empty.
VariantCallsFromSample(reference, sample) ==
    LET made == [i \in {j \in DOMAIN sample : sample[j] # << >>} |->
                    MutationSetNew(reference[i], i, FALSE, CharsOf(sample[i]))]
    IN  IF Len(reference) # Len(sample) THEN ValueError
        ELSE [kind |-> "VariantCalls",
              mutation_sets |-> {made[i] : i \in DOMAIN made}]

\* Terms of the first two positions, with and without a wildtype.
CallTerms ==
    {<<"1", "G">>, <<"1", "S">>, <<"A", "1", "G">>, <<"R", "1", "G">>,
     <<"1", "G", "S">>, <<"1", "S", "G">>, <<"2", "G">>, <<"1", "!", "G">>}

RECURSIVE TermLists(_)
TermLists(n) ==
    IF n = 0 THEN {<< >>}
    ELSE TermLists(n - 1)
         \cup {<<t>> \o rest : t \in CallTerms, rest \in TermLists(n - 1) }

CallTexts == {JoinWords(ts) : ts \in TermLists(MaxTerms)}

RefLetters == {"A", "G"}

\* What a sample holds at a position: no call, one call, or two.
SampleCalls == {<< >>, <<"A">>, <<"G">>, <<"A", "G">>}

SeqsUpTo(S, n) == UNION {[1..k -> S] : k \in 0..n}

CallOperands ==
    {[mode |-> "text", text |-> t, reference |-> << >>, sample |-> << >>] :
        t \in CallTexts}
    \cup {[mode |-> "sample", text |-> << >>, reference |-> r, sample |-> s] :
            r \in SeqsUpTo(RefLetters, MaxRef), s \in SeqsUpTo(SampleCalls, MaxRef)}

InitCalls ==
    /\ operands \in CallOperands
    /\ env = {}
    /\ rule = NoRule
    /\ outcome = NoOutcome
    /\ heap = NoHeap
    /\ evals = NoEvals
    /\ pc = "args"
    /\ text = NoText
    /\ mset = NoSet

\* VariantCalls(text)
FromTerms ==
    /\ pc = "args"
    /\ operands.mode = "text"
    /\ \E made \in {VariantCallsFromText(operands.text)} :
           IF made.kind = "ValueError"
           THEN outcome' = made /\ pc' = "failed" /\ UNCHANGED env
           ELSE env' = made.mutation_sets /\ pc' = "made" /\ UNCHANGED outcome
    /\ UNCHANGED <<rule, text, mset, heap, operands, evals>>

\* VariantCalls(reference=reference, sample=sample)
FromSample ==
    /\ pc = "args"
    /\ operands.mode = "sample"
    /\ \E made \in {VariantCallsFromSample(operands.reference, operands.sample)} :
           IF made.kind = "ValueError"
           THEN outcome' = made /\ pc' = "failed" /\ UNCHANGED env
           ELSE env' = made.mutation_sets /\ pc' = "made" /\ UNCHANGED outcome
    /\ UNCHANGED <<rule, text, mset, heap, operands, evals>>

NextCalls == FromTerms \/ FromSample

SpecCalls == InitCalls /\ [][NextCalls]_vars

(***************************************************************************)
(* Precedence: the rules A OR B AND C and (A OR B) AND C, parsed and then  *)
(* evaluated.                                                              *)
(***************************************************************************)
\* The atoms' texts: 1G, 1S, 2G and A1G.
PrecAtoms == {<<"1", "G">>, <<"1", "S">>, <<"2", "G">>, <<"A", "1", "G">>}

\* The text of the rule of a shape over three atoms.
PrecText(o) ==
    IF o.shape = "A OR B AND C"
    THEN JoinWords(<<o.a, OR_, o.b, AND_, o.c>>)
    ELSE <<"(">> \o JoinWords(<<o.a, OR_, o.b>>) \o <<")">>
            \o JoinWords(<<<< >>, AND_, o.c>>)

PrecOperands ==
    [shape : {"A OR B AND C", "(A OR B) AND C"},
     a : PrecAtoms, b : PrecAtoms, c : PrecAtoms]

\* Environments with a set at both positions: 1G, 1S or R1G, and 2G or 2d.
PrecEnvs ==
    {{MutationSetNew(one[1], 1, FALSE, one[2]), MutationSetNew("", 2, FALSE, two)} :
        one \in {<<"", {"G"}>>, <<"", {"S"}>>, <<"R", {"G"}>>},
        two \in {{"G"}, {"d"}}}

InitPrecedence ==
    /\ operands \in PrecOperands
    /\ text = PrecText(operands)
    /\ env \in PrecEnvs
    /\ rule = NoRule
    /\ outcome = NoOutcome
    /\ heap = NoHeap
    /\ evals = NoEvals
    /\ pc = "text"
    /\ mset = NoSet

NextPrecedence == Parse \/ Evaluate

SpecPrecedence == InitPrecedence /\ [][NextPrecedence]_vars

(***************************************************************************)
(* Quantifiers: the text of an inequality parsed by the grammar, and the   *)
(* EqualityExpr it builds applied to a count.                              *)
(***************************************************************************)
\* Limits of one digit and of two.
QuantifierLimits == (0..MaxLimit) \cup {10 + n : n \in 0..MaxLimit}

QuantifierOperands ==
    [keyword : {EXACTLY_, ATLEAST_, NOTMORETHAN_},
     limit : QuantifierLimits,
     x : 0..MaxPos]

InitQuantifier ==
    /\ operands \in QuantifierOperands
    /\ text = JoinWords(<<operands.keyword, StrOfInt(operands.limit)>>)
    /\ rule = NoRule
    /\ env = {}
    /\ outcome = NoOutcome
    /\ heap = NoHeap
    /\ evals = NoEvals
    /\ pc = "text"
    /\ mset = NoSet

\* inequality.parseString(text): the EqualityExpr of the parse action.
ParseInequality ==
    /\ pc = "text"
    /\ \E m \in {inequality(text, 1)} :
           IF m.ok
           THEN /\ rule' = Head(m.toks)
                /\ pc' = "parsed"
                /\ UNCHANGED outcome
           ELSE /\ outcome' = Raise("ParseException", 0)
                /\ pc' = "failed"
                /\ UNCHANGED rule
    /\ UNCHANGED <<env, text, mset, heap, operands, evals>>

\* operation(passing), as SelectFrom.__call__ applies the quantifier.
Apply ==
    /\ pc = "parsed"
    /\ outcome' = Call(rule, operands.x)
    /\ pc' = "applied"
    /\ UNCHANGED <<rule, env, text, mset, heap, operands, evals>>

NextQuantifier == ParseInequality \/ Apply

SpecQuantifier == InitQuantifier /\ [][NextQuantifier]_vars

(***************************************************************************)
(* Adding and subtracting two Scores whose flags dicts are objects.        *)
(***************************************************************************)
MaxItems == 1

\* A list of k new empty lists.
RECURSIVE ListOfEmpties(_, _, _, _)
ListOfEmpties(h, owner, k, items) ==
    IF k = 0 THEN Alloc(h, owner, List(items))
    ELSE With(Alloc(h, owner, List(<< >>)),
              LAMBDA made : ListOfEmpties(made.heap, owner, k - 1,
                                          Append(items, made.at)))

\* The dict {label: list of sizes[label] empty lists, ...} at address d.
RECURSIVE FillFlags(_, _, _, _, _)
FillFlags(h, owner, d, sizes, keys) ==
    IF keys = << >> THEN h
    ELSE With(ListOfEmpties(h, owner, sizes[Head(keys)], << >>),
              LAMBDA made :
                FillFlags([made.heap EXCEPT ![d].items =
                              [j \in (DOMAIN @) \cup {Head(keys)} |->
                                  IF j = Head(keys) THEN made.at ELSE @[j]]],
                          owner, d, sizes, Tail(keys)))

\* Score(score, residues, flags) with flags a dict of its own.
ScoreWithFlags(h, owner, spec) ==
    With(Alloc(h, owner, Dict(<< >>)),
         LAMBDA d :
            [heap |-> FillFlags(d.heap, owner, d.at, spec.sizes,
                                InOrder(LabelOrder, DOMAIN spec.sizes)),
             result |-> Score(spec.score, spec.residues, d.at)])

\* Scores of False and of small ints, residues at two positions, and flags
\* with any of the labels, each holding up to MaxItems lists.
ScoreSpecs ==
    [score : {PyBool(FALSE)} \cup {PyInt(n) : n \in 0..MaxScore},
     residues : {{}, {Mutation(None, 1, "G")}, {Mutation(None, 2, "G")}},
     sizes : UNION {[ls -> 0..MaxItems] : ls \in SUBSET Labels}]

\* The two operands, made one after the other by the caller (owner 0), and the
\* heap as it is before the operation.
TwoScores(l, r) ==
    With(ScoreWithFlags(NoHeap, 0, l), LAMBDA left :
    With(ScoreWithFlags(left.heap, 0, r), LAMBDA right :
        [left |-> left.result, right |-> right.result, before |-> right.heap]))

AddOperands == {TwoScores(l, r) : l \in ScoreSpecs, r \in ScoreSpecs}

InitAdd ==
    /\ operands \in AddOperands
    /\ heap = operands.before
    /\ rule = NoRule
    /\ env = {}
    /\ outcome = NoOutcome
    /\ evals = NoEvals
    /\ pc = "operands"
    /\ text = NoText
    /\ mset = NoSet

\* left + right
Add ==
    /\ pc = "operands"
    /\ heap' = update_flags_in_place(heap, operands.left.flags, operands.right.flags,
                                     KeysOf(heap, operands.right.flags))
    /\ outcome' = ScoreSum(operands.left, operands.right)
    /\ pc' = "added"
    /\ UNCHANGED <<rule, env, text, mset, operands, evals>>

\* left - right
Subtract ==
    /\ pc = "operands"
    /\ heap' = update_flags_in_place(heap, operands.left.flags, operands.right.flags,
                                     KeysOf(heap, operands.right.flags))
    /\ outcome' = ScoreDifference(operands.left, operands.right)
    /\ pc' = "subtracted"
    /\ UNCHANGED <<rule, env, text, mset, operands, evals>>

NextAdd == Add \/ Subtract

SpecAdd == InitAdd /\ [][NextAdd]_vars

(***************************************************************************)
(* Rules as callers run them: HCVR(text) and then rule(env), for texts of  *)
(* every kind of statement the grammar accepts.                            *)
(***************************************************************************)
RunAtoms == {Residue1G, <<"1", "S">>, <<"A", "1", "G">>, Residue2G}

RunQuantifiers ==
    {<<k, StrOfInt(n)>> : k \in {EXACTLY_, ATLEAST_, NOTMORETHAN_}, n \in 0..MaxLimit}
    \cup {<<k1, <<"1">>, op, k2, <<"1">>>> :
            k1 \in {EXACTLY_, ATLEAST_}, op \in {AND_, OR_},
            k2 \in {EXACTLY_, ATLEAST_}}

\* The words of the rules: atoms, two and three atoms joined by AND or OR,
\* SELECT with each quantifier, EXCEPT, TRUE, and a score condition.
RunWords ==
    {<<a>> : a \in RunAtoms}
    \cup {<<a, op, b>> : a \in RunAtoms, op \in {AND_, OR_}, b \in RunAtoms}
    \cup {<<Residue1G, op, <<"1", "S">>, op, Residue2G>> : op \in {AND_, OR_}}
    \cup {<<SELECT_>> \o q \o <<FROM_, <<"(">>, Residue1G, <<",">>, Residue2G, <<")">>>> :
            q \in RunQuantifiers}
    \cup {<<EXCEPT_, Residue1G>>, <<TRUE_>>,
          <<SCORE_FROM_, <<"(">>, Residue1G, MAPPER_, <<"1">>, <<",">>,
            <<"A", "1", "G">>, MAPPER_, <<"2">>, <<")">>>>}

RunTexts == {JoinWords(ws) : ws \in RunWords}

\* Environments: no set at position 1, or 1G, 1S or R1G; no set at position
\* 2, or 2G or 2d.
RunEnvs ==
    {one \cup two :
        one \in {{}} \cup {{MutationSetNew(t[1], 1, FALSE, t[2])} :
                              t \in {<<"", {"G"}>>, <<"", {"S"}>>, <<"R", {"G"}>>}},
        two \in {{}} \cup {{MutationSetNew("", 2, FALSE, v)} : v \in {{"G"}, {"d"}}}}

InitRun ==
    /\ text \in RunTexts
    /\ env \in RunEnvs
    /\ rule = NoRule
    /\ outcome = NoOutcome
    /\ heap = NoHeap
    /\ operands = NoOperands
    /\ evals = NoEvals
    /\ pc = "text"
    /\ mset = NoSet

NextRun == Parse \/ Evaluate

SpecRun == InitRun /\ [][NextRun]_vars

(***************************************************************************)
(* Score lists on their own: a ScoreList of one or two items whose         *)
(* conditions are TRUE, FALSE or the atom 1G, called with an environment.  *)
(***************************************************************************)
ListItems ==
    {ScoreExpr(<<c>> \o slot) :
        c \in {BoolTrue, BoolFalse, ResidueAtom(<<"", 1, FALSE, {"G"}>>)},
        slot \in {<<n>> : n \in 0..MaxScore} \cup {<<"\"", "flag1", "\"">>}}

ListRules ==
    {ScoreList(op, items) :
        op \in {"SUM", "MAX"},
        items \in {<<i>> : i \in ListItems}
                  \cup {<<i1, i2>> : i1 \in ListItems, i2 \in ListItems}}

\* 1G and 1S.
ListEnvs ==
    {{MutationSetNew("", 1, FALSE, {"G"})}, {MutationSetNew("", 1, FALSE, {"S"})}}

InitList ==
    /\ rule \in ListRules
    /\ env \in ListEnvs
    /\ outcome = NoOutcome
    /\ heap = NoHeap
    /\ operands = NoOperands
    /\ evals = NoEvals
    /\ pc = "parsed"
    /\ text = NoText
    /\ mset = NoSet

NextList == Evaluate

SpecList == InitList /\ [][NextList]_vars

(***************************************************************************)
(* Properties                                                              *)
(***************************************************************************)
Variants(ms) == {m.variant : m \in ms.mutations}
Calls(residues) == {<<m.pos, m.variant>> : m \in residues}
SetsAt(e, p) == {ms \in e : ms.pos = p}
WildtypeClash(a, b) ==
    a.wildtype # None /\ b.wildtype # None /\ a.wildtype # b.wildtype
IsBoolScore(o, b) == o.kind = "Score" /\ o.score = PyBool(b)

RECURSIVE AtomsOf(_)
AtomsOf(n) ==
    CASE n.node = "AsiMutations" -> {n.mutations}
      [] n.node \in {"BoolTrue", "BoolFalse", "EqualityExpr"} -> {}
      [] n.node \in {"AndExpr", "OrExpr", "AsiScoreCond"} ->
            UNION {AtomsOf(n.children[i]) : i \in DOMAIN n.children}
      [] n.node = "SelectFrom" -> UNION {AtomsOf(n.rest[i]) : i \in DOMAIN n.rest}
      [] n.node = "ScoreExpr" -> AtomsOf(n.children[1])
      [] n.node = "ScoreList" -> UNION {AtomsOf(n.terms[i]) : i \in DOMAIN n.terms}

MissingPositions(r, e) == {a.pos : a \in AtomsOf(r)} \ {ms.pos : ms \in e}

\* The atom matches the environment: the set at its position shares a variant.
Matches(atom, e) ==
    \E ms \in SetsAt(e, atom.pos) : Variants(atom) \cap Variants(ms) # {}

\* The atom's evaluation compares two mutations whose wildtypes differ.
Clashes(atom, e) ==
    \E ms \in SetsAt(e, atom.pos) :
        Variants(atom) \cap Variants(ms) # {} /\ WildtypeClash(atom, ms)

\* The rule holds a SELECT whose quantifier is not a single ATLEAST or EXACTLY.
RECURSIVE HasOtherQuantifier(_)
HasOtherQuantifier(n) ==
    CASE n.node \in {"AsiMutations", "BoolTrue", "BoolFalse", "EqualityExpr"} -> FALSE
      [] n.node \in {"AndExpr", "OrExpr", "AsiScoreCond"} ->
            \E i \in DOMAIN n.children : HasOtherQuantifier(n.children[i])
      [] n.node = "SelectFrom" ->
            ~(n.operation.node = "EqualityExpr"
              /\ n.operation.operation \in {"ATLEAST", "EXACTLY"})
      [] n.node = "ScoreExpr" -> HasOtherQuantifier(n.children[1])
      [] n.node = "ScoreList" -> \E i \in DOMAIN n.terms : HasOtherQuantifier(n.terms[i])

IsAndOfTwo(r) == r.node = "AndExpr" /\ Len(r.children) = 2

MatchCount(rest, e) ==
    Cardinality({i \in DOMAIN rest : Matches(rest[i].mutations, e)})

\* C4: SELECT q FROM (a1, ..., an) evaluates every listed atom (a listed atom
\* at a missing position makes it raise), and when the atoms evaluate its
\* value is q applied to the number of atoms that match: ATLEAST k is True
\* exactly when at least k match, EXACTLY k exactly when k match, and a
\* quantifier that raises makes the SELECT raise the same.
C4_SelectCounts ==
    pc = "evaluated" /\ rule.node = "SelectFrom" =>
        LET count == MatchCount(rule.rest, env)
            q == rule.operation
            clash == \E i \in DOMAIN rule.rest : Clashes(rule.rest[i].mutations, env)
        IN  /\ MissingPositions(rule, env) # {} => Raised(outcome)
            /\ MissingPositions(rule, env) = {} /\ ~clash =>
                 /\ q.node = "EqualityExpr" /\ q.operation = "ATLEAST" =>
                        IsBoolScore(outcome, count >= q.limit)
                 /\ q.node = "EqualityExpr" /\ q.operation = "EXACTLY" =>
                        IsBoolScore(outcome, count = q.limit)
                 /\ Raised(Call(q, count)) => outcome = Call(q, count)
                 /\ ~Raised(Call(q, count)) =>
                        IsBoolScore(outcome, Call(q, count).value)

\* SELECT EXACTLY 1 over atoms of which two match evaluates to False.
C4_Witness ==
    /\ pc = "evaluated" /\ rule.node = "SelectFrom"
    /\ rule.operation = EqualityExpr("EXACTLY", 1)
    /\ MatchCount(rule.rest, env) = 2
    /\ IsBoolScore(outcome, FALSE)

(***************************************************************************)
(* Score conditions: what a rule's items say about the environment.        *)
(***************************************************************************)
ScoreTexts == UNION {ResidueTextsAt(p) : p \in Positions}

\* The letters a residue text stands for: the listed ones, or with '!' the
\* amino acids other than the listed ones.
TextLetters(t) == IF t[3] THEN AminoLetters \ t[4] ELSE t[4]

\* The calls of the environment that a residue text names.
TextCalls(t, e) ==
    {<<t[2], v>> : v \in UNION {Variants(ms) \cap TextLetters(t) : ms \in SetsAt(e, t[2])}}

\* The condition is true in the environment.
RECURSIVE CondHolds(_, _)
CondHolds(c, e) ==
    CASE c.node = "AsiMutations" ->
            \E t \in ScoreTexts : ResidueAtom(t) = c /\ TextCalls(t, e) # {}
      [] c.node = "AndExpr" -> \A i \in DOMAIN c.children : CondHolds(c.children[i], e)
      [] c.node = "OrExpr" -> \E i \in DOMAIN c.children : CondHolds(c.children[i], e)
      [] c.node = "BoolTrue" -> TRUE
      [] OTHER -> FALSE

\* The calls of the environment that a true condition rests on.
RECURSIVE CondCalls(_, _)
CondCalls(c, e) ==
    CASE c.node = "AsiMutations" ->
            UNION {TextCalls(t, e) : t \in {u \in ScoreTexts : ResidueAtom(u) = c}}
      [] c.node \in {"AndExpr", "OrExpr"} ->
            UNION {CondCalls(c.children[i], e) : i \in DOMAIN c.children}
      [] OTHER -> {}

ItemCond(item) == item.children[1]
IsFlagItem(item) == Len(item.children) = 4
ItemLabel(item) == item.children[3]
\* The score si an item is written with; a flag item has none and counts 0.
ItemScore(item) ==
    IF Len(item.children) = 2 THEN item.children[2]
    ELSE IF Len(item.children) = 3 THEN 0 - item.children[3]
    ELSE 0

\* All the items of a SCORE FROM rule, over all of its lists.
RuleItems(r) ==
    UNION {{r.children[j].terms[i] : i \in DOMAIN r.children[j].terms} :
            j \in DOMAIN r.children}
TrueItems(r, e) == {item \in RuleItems(r) : CondHolds(ItemCond(item), e)}

IsOneList(r, op) ==
    /\ r.node = "AsiScoreCond" /\ Len(r.children) = 1
    /\ r.children[1].node = "ScoreList" /\ r.children[1].operation = op

RECURSIVE SumOfTrue(_, _, _)
SumOfTrue(terms, i, e) ==
    IF i > Len(terms) THEN 0
    ELSE (IF CondHolds(ItemCond(terms[i]), e) THEN ItemScore(terms[i]) ELSE 0)
         + SumOfTrue(terms, i + 1, e)

Largest(S) == CHOOSE n \in S : \A m \in S : m <= n

\* C5: SCORE FROM (c1 => s1, ..., cn => sn) with no aggregate keyword
\* evaluates to the sum of the si over exactly the items whose ci is true in
\* the environment (p!XY being true when the environment has at p an amino
\* acid other than X and Y); false items contribute 0 and the result is 0
\* when no condition is true.
C5_SumOfTrueItems ==
    pc = "evaluated" /\ IsOneList(rule, "SUM") =>
        /\ outcome.kind = "Score"
        /\ outcome.score = PyInt(SumOfTrue(rule.children[1].terms, 1, env))
        /\ TrueItems(rule, env) = {} => outcome.score = PyInt(0)

\* (1!GS => 2, 2G => -1, (1G AND 3G) => 2) against 1W 2G 3x is 1: the negated
\* atom and 2G are true, the conjunction is false.
C5_Witness ==
    /\ pc = "evaluated" /\ IsOneList(rule, "SUM")
    /\ LET terms == rule.children[1].terms
       IN  /\ Len(terms) = 3
           /\ ItemCond(terms[1]) = ResidueAtom(<<"", 1, TRUE, {"G", "S"}>>)
           /\ CondHolds(ItemCond(terms[1]), env) /\ ItemScore(terms[1]) = 2
           /\ CondHolds(ItemCond(terms[2]), env) /\ ItemScore(terms[2]) = -1
           /\ ~CondHolds(ItemCond(terms[3]), env) /\ ItemScore(terms[3]) = 2
    /\ outcome.kind = "Score" /\ outcome.score = PyInt(1)

\* C6 (as amended): SCORE FROM (MAX (c1 => s1, ..., cn => sn)) evaluates to
\* the maximum of the si among the items whose ci is true and whose si is not
\* 0; false items, and true items of score 0 (flag items included), take no
\* part, so the result is the largest negative score when every such item is
\* negative, and 0 when no item is true with a nonzero score.
C6_MaxOfNonzeroTrueItems ==
    pc = "evaluated" /\ IsOneList(rule, "MAX") =>
        LET taking == {ItemScore(item) : item \in
                        {it \in TrueItems(rule, env) : ItemScore(it) # 0}}
        IN  /\ outcome.kind = "Score"
            /\ outcome.score = PyInt(IF taking = {} THEN 0 ELSE Largest(taking))

\* C6 as stated: the result is the maximum of the si among the items whose ci
\* is true.
C6_Original ==
    pc = "evaluated" /\ IsOneList(rule, "MAX") =>
        LET taking == {ItemScore(item) : item \in
                        {it \in TrueItems(rule, env) : ~IsFlagItem(it)}}
        IN  taking # {} =>
                outcome.kind = "Score" /\ outcome.score.n = Largest(taking)

\* MAX (c1 => 0, c2 => -2, c3 => 2) with c1 and c2 true and c3 false is -2.
C6_Witness ==
    /\ pc = "evaluated" /\ IsOneList(rule, "MAX")
    /\ LET terms == rule.children[1].terms
       IN  /\ Len(terms) = 3
           /\ CondHolds(ItemCond(terms[1]), env)
           /\ terms[1].children = <<ItemCond(terms[1]), 0>>
           /\ CondHolds(ItemCond(terms[2]), env) /\ ItemScore(terms[2]) = -2
           /\ ~CondHolds(ItemCond(terms[3]), env) /\ ItemScore(terms[3]) = 2
    /\ outcome.kind = "Score" /\ outcome.score = PyInt(-2)

\* C7: the residues of a score list (summed or MAX) are the union of the
\* residues of all of its items, the true items that add nothing to the number
\* (score 0, or not the maximum) included; a false item contributes none.
C7_ResiduesOfAllTrueItems ==
    pc = "evaluated" /\ rule.node = "AsiScoreCond" =>
        /\ outcome.kind = "Score"
        /\ Calls(outcome.residues) =
              UNION {CondCalls(ItemCond(item), env) : item \in TrueItems(rule, env)}

\* MAX (1G => 0, 2G => 2, (1G AND 3G) => 1) with every item true: the
\* residues hold the calls of all three though only 2G gives the number.
C7_Witness ==
    /\ pc = "evaluated" /\ IsOneList(rule, "MAX")
    /\ LET terms == rule.children[1].terms
       IN  /\ Len(terms) = 3
           /\ \A i \in 1..3 : CondHolds(ItemCond(terms[i]), env)
           /\ terms[1].children = <<ItemCond(terms[1]), 0>>
           /\ ItemScore(terms[2]) = 2 /\ ItemScore(terms[3]) = 1
    /\ outcome.kind = "Score" /\ outcome.score = PyInt(2)
    /\ Calls(outcome.residues) = {<<1, "G">>, <<2, "G">>, <<3, "G">>}

\* The rule with the number 0 written in place of every flag label.
ZeroForFlags(r) ==
    AsiScoreCond([j \in DOMAIN r.children |->
        ScoreList(r.children[j].operation,
            [i \in DOMAIN r.children[j].terms |->
                LET item == r.children[j].terms[i]
                IN  IF IsFlagItem(item) THEN ScoreExpr(<<ItemCond(item), 0>>)
                    ELSE item])])

FlagItems(r) == {item \in RuleItems(r) : IsFlagItem(item)}

\* C8 (as amended): a score item whose score slot is a quoted label
\* contributes 0 to the numeric score of the rule, and the label is a key of
\* the flags of the rule's result exactly when the condition of at least one
\* item carrying that label is true in the environment.
C8_FlagOfSomeTrueItem ==
    pc = "evaluated" /\ rule.node = "AsiScoreCond" =>
        /\ outcome.kind = "Score"
        /\ outcome.score = Call(ZeroForFlags(rule), env).score
        /\ DOMAIN outcome.flags =
              {ItemLabel(item) : item \in FlagItems(rule) \cap TrueItems(rule, env)}

\* C8 as stated: the label of each flag item is a key of the flags exactly
\* when that item's condition is true.
C8_Original ==
    pc = "evaluated" /\ rule.node = "AsiScoreCond" =>
        /\ outcome.kind = "Score"
        /\ outcome.score = Call(ZeroForFlags(rule), env).score
        /\ \A item \in FlagItems(rule) :
              ItemLabel(item) \in DOMAIN outcome.flags
                  <=> CondHolds(ItemCond(item), env)

\* (1G => "flag1", 2G => "flag1", (1G AND 3G) => 2) with 1G false and 2G true:
\* flag1 is a key of the flags and the score is 0.
C8_Witness ==
    /\ pc = "evaluated" /\ IsOneList(rule, "SUM")
    /\ LET terms == rule.children[1].terms
       IN  /\ Len(terms) = 3
           /\ IsFlagItem(terms[1]) /\ ItemLabel(terms[1]) = "flag1"
           /\ IsFlagItem(terms[2]) /\ ItemLabel(terms[2]) = "flag1"
           /\ ~CondHolds(ItemCond(terms[1]), env)
           /\ CondHolds(ItemCond(terms[2]), env)
           /\ ItemScore(terms[3]) = 2
    /\ outcome.kind = "Score" /\ outcome.score = PyInt(0)
    /\ DOMAIN outcome.flags = {"flag1"}

\* C9: parsing a rule text either consumes the whole text as one statement
\* of the grammar or fails with a syntax error: a tree is never built from
\* only a leading part of the text.
C9_WholeTextOrError ==
    pc = "parsed" =>
        SkipWhitespace(text, parseString(text).loc) = Len(text) + 1

\* C10: the text form of a mutation set has the '!' form exactly when the set
\* has more than 10 variants, and constructing a MutationSet from the text
\* yields a set equal to the original.
C10_TextRoundTrip ==
    pc = "made" =>
        /\ ("!" \in CharsOf(text)) <=> (Cardinality(mset.mutations) > 10)
        /\ outcome.kind = "MutationSet"
        /\ MutationSetEq(outcome.value, mset) = [kind |-> "bool", value |-> TRUE]

\* The value of the list at address a, and of the dict at address d.
RECURSIVE ListValue(_, _)
ListValue(h, a) == [i \in DOMAIN h[a].items |-> ListValue(h, h[a].items[i])]

DictValue(h, d) == [k \in DOMAIN h[d].items |-> ListValue(h, h[d].items[k])]

\* A Score object as a value: its flags dict read out of the heap.
ScoreValue(h, s) ==
    IF s.kind = "Score" THEN [s EXCEPT !.flags = DictValue(h, s.flags)] ELSE s

\* The addresses an object refers to, and all those reachable from a set.
Refs(h, a) == {h[a].items[k] : k \in DOMAIN h[a].items}

RECURSIVE Reachable(_, _)
Reachable(h, S) ==
    With(S \cup UNION {Refs(h, a) : a \in S},
         LAMBDA more : IF more = S THEN S ELSE Reachable(h, more))

\* The objects an evaluation can read or write: those reachable from the
\* Scores it holds.
HeldBy(e) ==
    Reachable(heap,
        {s.flags : s \in {t \in {evals[e].acc, evals[e].score, evals[e].result}
                               \cup {evals[e].scores[i] : i \in DOMAIN evals[e].scores} :
                            t.kind = "Score"}})

Interleaving == evals # NoEvals

\* C11: of the evaluations of one parsed rule that run interleaved, each
\* against its own mutations, every one returns what it returns when it runs
\* alone, and no object (a flags dict or a list under a label) that one of
\* them holds is held by another; the rule's tree is never written.
C11_Isolated ==
    /\ [](Interleaving =>
            /\ \A e \in Evals :
                 evals[e].pc = "done" =>
                    ScoreValue(heap, evals[e].result)
                        = Call(rule, evals[e].mutations)
            /\ \A e1 \in Evals, e2 \in Evals :
                 e1 # e2 => HeldBy(e1) \cap HeldBy(e2) = {})
    /\ [][rule' = rule]_vars

\* Two evaluations both in the middle of their second addition, each having
\* flagged its own result, on different mutations.
C11_Witness ==
    /\ Interleaving
    /\ evals[1].pc = "add" /\ evals[1].child = 2 /\ evals[1].keys # << >>
    /\ evals[2].pc = "add" /\ evals[2].child = 2 /\ evals[2].keys = << >>
    /\ DOMAIN DictValue(heap, evals[1].acc.flags) # {}
    /\ DOMAIN DictValue(heap, evals[2].acc.flags) # {}
    /\ evals[1].mutations # evals[2].mutations

\* The calls of a sample at a position differ from the reference letter.
Differs(alt, ref) == alt # << >> /\ CharsOf(alt) # {ref}

FromSampleMade == pc = "made" /\ operands # NoOperands /\ operands.mode = "sample"

\* C12 as stated: a VariantCalls built from a reference and a sample of the
\* same length holds a MutationSet for position i exactly when the sample's
\* calls at i differ from the reference's letter at i.
C12_Original ==
    FromSampleMade =>
        \A i \in DOMAIN operands.reference :
            (\E ms \in env : ms.pos = i)
                <=> Differs(operands.sample[i], operands.reference[i])

\* C12: a VariantCalls built from a reference and a sample of the same length
\* holds a MutationSet for position i exactly when the sample has a call at
\* i, and that set has the reference's letter as wildtype and the sample's
\* calls as variants, whether or not they are the reference's letter.
C12_EveryCalledPosition ==
    FromSampleMade =>
        /\ \A i \in DOMAIN operands.reference :
              (\E ms \in env : ms.pos = i) <=> operands.sample[i] # << >>
        /\ \A ms \in env :
              /\ ms.wildtype = operands.reference[ms.pos]
              /\ Variants0(ms) = CharsOf(operands.sample[ms.pos])

\* A sample with the reference's letter at one position and no call at another.
C12_Witness ==
    /\ FromSampleMade
    /\ \E i \in DOMAIN operands.reference :
          operands.sample[i] = <<operands.reference[i]>>
    /\ \E i \in DOMAIN operands.reference : operands.sample[i] = << >>
    /\ \E ms \in env : Variants0(ms) = {ms.wildtype}

\* The terms of the text, as mutation sets.
TermSets ==
    LET terms == Split(operands.text, 1)
    IN  [i \in DOMAIN terms |-> MutationSetFromText(terms[i])]

TwoTermsAtOnePosition ==
    /\ operands # NoOperands
    /\ operands.mode = "text"
    /\ \E i \in DOMAIN TermSets, j \in DOMAIN TermSets :
         i # j /\ TermSets[i].pos = TermSets[j].pos

\* C13: a VariantCalls built from a text with two terms at one position fails
\* with a construction error, whatever the variants; a constructed
\* VariantCalls has at most one MutationSet at a position.
C13_DuplicatePositionFails ==
    /\ pc \in {"made", "failed"} /\ TwoTermsAtOnePosition => pc = "failed"
    /\ pc = "made" /\ operands # NoOperands
         => \A a \in env, b \in env : a.pos = b.pos => a = b

\* The atom a term's text denotes.
AtomOfText(t) == MutationSetFromText(t)

PrecedenceRule == operands # NoOperands /\ "shape" \in DOMAIN operands

\* The tree the shape denotes.
PrecTree ==
    LET A == AsiMutations(AtomOfText(operands.a))
        B == AsiMutations(AtomOfText(operands.b))
        C == AsiMutations(AtomOfText(operands.c))
    IN  IF operands.shape = "A OR B AND C"
        THEN OrExpr(A, AndExpr(<<B, C>>))
        ELSE AndExpr(<<OrExpr(A, B), C>>)

\* The truth value the shape denotes, an atom being true when it matches.
PrecTruth ==
    LET A == Matches(AtomOfText(operands.a), env)
        B == Matches(AtomOfText(operands.b), env)
        C == Matches(AtomOfText(operands.c), env)
    IN  IF operands.shape = "A OR B AND C" THEN A \/ (B /\ C) ELSE (A \/ B) /\ C

PrecClash ==
    \E t \in {operands.a, operands.b, operands.c} : Clashes(AtomOfText(t), env)

\* C14: AND binds tighter than OR and parentheses override: A OR B AND C
\* evaluates to what the tree of A OR (B AND C) evaluates to, (A OR B) AND C
\* to what the tree of (A OR B) AND C evaluates to, and where no atom meets a
\* different wildtype that is the truth value of the formula.
C14_Precedence ==
    PrecedenceRule =>
        /\ pc # "failed"
        /\ pc = "evaluated" =>
             /\ outcome = Call(PrecTree, env)
             /\ ~PrecClash => IsBoolScore(outcome, PrecTruth)

\* A OR B AND C evaluated where grouping from the left gives the other value:
\* A is true and C is false.
C14_Witness ==
    /\ PrecedenceRule
    /\ pc = "evaluated"
    /\ operands.shape = "A OR B AND C"
    /\ Matches(AtomOfText(operands.a), env)
    /\ ~Matches(AtomOfText(operands.c), env)
    /\ IsBoolScore(outcome, TRUE)

QuantifierApplied ==
    operands # NoOperands /\ "keyword" \in DOMAIN operands /\ pc = "applied"

\* C15: the quantifier the parser builds from an inequality keyword and a
\* limit n, applied to a count x, returns x >= n for ATLEAST, x = n for
\* EXACTLY and x <= n for NOTMORETHAN.
C15_QuantifierCompares ==
    /\ operands # NoOperands /\ "keyword" \in DOMAIN operands => pc # "failed"
    /\ QuantifierApplied =>
         outcome = Bare(CASE operands.keyword = ATLEAST_ -> operands.x >= operands.limit
                          [] operands.keyword = EXACTLY_ -> operands.x = operands.limit
                          [] operands.keyword = NOTMORETHAN_ ->
                                operands.x <= operands.limit)

Adding == operands # NoOperands /\ "before" \in DOMAIN operands

\* The flags of the operands as they were before the operation.
LeftBefore == DictValue(operands.before, operands.left.flags)
RightBefore == DictValue(operands.before, operands.right.flags)

\* C16: adding two Scores gives a Score whose score is the sum of the scores,
\* whose residues are the union of the residues, and whose flags map a label
\* of one operand to that operand's list and a label of both to the two lists
\* concatenated.
C16_MergeConcatenates ==
    Adding /\ pc = "added" =>
        /\ outcome.kind = "Score"
        /\ outcome.score.n = operands.left.score.n + operands.right.score.n
        /\ outcome.residues = operands.left.residues \cup operands.right.residues
        /\ DictValue(heap, outcome.flags) =
             [k \in (DOMAIN LeftBefore) \cup (DOMAIN RightBefore) |->
                IF k \notin DOMAIN RightBefore THEN LeftBefore[k]
                ELSE IF k \notin DOMAIN LeftBefore THEN RightBefore[k]
                ELSE LeftBefore[k] \o RightBefore[k]]

\* C17: adding or subtracting two Scores leaves the flags of both operands,
\* and the lists under their labels, as they were, and the dict and lists of
\* the result are none of the operands'.
C17_OperandsUnchanged ==
    Adding /\ pc \in {"added", "subtracted"} =>
        /\ DictValue(heap, operands.left.flags) = LeftBefore
        /\ DictValue(heap, operands.right.flags) = RightBefore
        /\ Reachable(heap, {outcome.flags})
             \cap Reachable(heap, {operands.left.flags, operands.right.flags}) = {}

\* C18: the evaluation of a rule the parser accepted, against any
\* environment, ends in a Score or in MissingPositionError.
C18_ScoreOrMissingPosition ==
    pc = "evaluated" /\ text \in RunTexts =>
        outcome.kind \in {"Score", "MissingPositionError"}

ListEvaluated == pc = "evaluated" /\ rule.node = "ScoreList"

\* The items of the list whose condition is true.
TrueOfList == {i \in DOMAIN rule.terms : CondHolds(ItemCond(rule.terms[i]), env)}

\* What a list with no true item evaluates to.
AllFalseResult == Score(PyBool(FALSE), {}, EmptyDict)

\* C19: a score list with a true item whose true items all have the score 0
\* evaluates to something other than what a list with no true item evaluates
\* to (which is the false Score with no residues and no flags).
C19_ZeroButTrueDiffers ==
    ListEvaluated =>
        /\ TrueOfList = {} => outcome = AllFalseResult
        /\ (/\ TrueOfList # {}
            /\ \A i \in TrueOfList :
                 ~IsFlagItem(rule.terms[i]) /\ ItemScore(rule.terms[i]) = 0)
             => outcome # AllFalseResult

====
